---- MODULE Spec2Model ----
(***************************************************************************)
(* quieto: debounce strategies.                                            *)
(*                                                                         *)
(* One strategy instance is modelled per behaviour: a TrailingDebouncer    *)
(* (strategies/trailing.py) or a CoalescingActorStrategy                   *)
(* (strategies/actor.py), chosen at construction (kind).  The asyncio      *)
(* event loop is modelled as a timely single thread: time (now) advances   *)
(* by Tick only when no timer is due and no task is ready to run.          *)
(* Events are numbered 1, 2, ... in push order.                            *)
(***************************************************************************)
EXTENDS Integers, Sequences, FiniteSets, TLC

\* ---- bounds of the model ----
MaxTime == 4
MaxPush == 3
MaxCalls == 2
MaxFlushCalls == 1
MaxShutdownCalls == 1
Delay == 2
MaxWait == 3
MinWait == 1
MaxInputQueue == 2
MaxOutputQueue == 1

\* AdaptiveDebouncer: times are counted in ticks, AdScale ticks to 0.1 s, so
\* that the moving average and the delay computed from it are whole numbers
\* of ticks for as many pushes as the model makes
FastInterval == 1
SlowInterval == 30
AdDelay == 20
AdDelayHigh == 60
AdMaxWait == 25
MaxSleeps == 3
\* Debouncer: calls of close()
MaxCloses == 2
\* flush() calls on a TrailingDebouncer that is called more than once
MaxReflush == 2
\* the largest delay and max_wait given to a constructor
MaxCtorValue == 4
\* the bounds of MapSpec: pushes, next_batch calls, close() calls, handles
\* ever created, and time
MaxMapPush == 3
MaxMapCalls == 1
MaxMapCloses == 2
MaxMapHandles == 2
MapMaxTime == 5
\* SessionManager: its delay (short, or longer than the session timeout), the
\* sleep of the reaper (half the session timeout), the sizes of a session's
\* input queue (max_queue_size) and output queue, and how much is done
SmDelay == 1
SmLongDelay == 4
GcPeriod == 1
SmQueueSize == 1
SmOutputSize == 1
MaxSmPush == 3
MaxSmCalls == 2
MaxSmCloses == 1
MaxHandles == 3
SmMaxTime == 5
AdScale == 2 * 10^(MaxPush - 1)
EmaScale == 10^(MaxPush - 1)
\* the defaults of AdaptiveDebouncer.__init__: alpha 0.3, multiplier 1.5,
\* min_delay 0.5 s, max_delay 5.0 s
AlphaNum == 3
AlphaDen == 10
MultNum == 3
MultDen == 2
MinDelayTenths == 5
MaxDelayTenths == 50

None == -1
Spent == -2
STOP == 0

Consumers == {"c1", "c2"}
Kinds == {"trailing", "actor"}

VARIABLES
    kind, delay, max_wait, now,
    \* TrailingDebouncer fields
    buffer, timer_handle, max_wait_handle, flush_event, last_batch, closed,
    \* CoalescingActorStrategy fields (_rx, _tx, _task, _last_batch) and the
    \* locals of its debounce_actor task (buffer, deadline, max_deadline)
    rx, tx, task, actor_buffer, deadline, max_deadline, actor_last_batch,
    \* next_batch callers: position, and the FIFO of getters suspended on _tx
    pc, getters,
    \* observation (history) variables
    npush, ptime, last_push, flushLog, got, flush_result, calls, stalled,
    solo, held,
    \* AdaptiveDebouncer fields (_ema, _last_time, _min_delay, _max_delay), or
    \* Unused; its _inner is the TrailingDebouncer above
    ad,
    \* Debouncer (core.py): _closed and what its callers observed, or Unused;
    \* its _strategy is the TrailingDebouncer above
    db,
    \* SessionManager (session.py), or Unused
    sm,
    \* a CoalescingActorStrategy given the pushes of the TrailingDebouncer
    \* above, or Unused
    pair,
    \* flush() calls on a TrailingDebouncer, as observed: the number of events
    \* pushed when flush() was last called, or Unused
    fl,
    \* the last construction of a strategy or of a DebounceConfig: the class, the
    \* arguments and the outcome, or Unused
    ctor,
    \* the function wrapped by @debounce (decorator.py): the caller between its
    \* push and its next_batch, and the batches the function was invoked with, or Unused
    dec,
    \* the event loop's scheduled callbacks of a TrailingDebouncer (the TimerHandle
    \* objects of loop.call_later not yet run or cancelled) and the two that
    \* _timer_handle and _max_wait_handle refer to, or Unused
    lp

trailingVars == <<buffer, timer_handle, max_wait_handle, flush_event, last_batch, closed>>
actorVars == <<rx, tx, task, actor_buffer, deadline, max_deadline, actor_last_batch, getters>>
obsVars == <<npush, ptime, last_push, flushLog, got, flush_result, calls, stalled,
             solo, held>>
\* the components built around a strategy
compVars == <<ad, db, sm, pair, fl, ctor, dec, lp>>
exceptAd == <<db, sm, pair, fl, ctor, dec, lp>>
exceptDb == <<ad, sm, pair, fl, ctor, dec, lp>>
exceptSm == <<ad, db, pair, fl, ctor, dec, lp>>
exceptPair == <<ad, db, sm, fl, ctor, dec, lp>>
exceptFl == <<ad, db, sm, pair, ctor, dec, lp>>
exceptCtor == <<ad, db, sm, pair, fl, dec, lp>>
exceptDec == <<ad, db, sm, pair, fl, ctor, lp>>
exceptLp == <<ad, db, sm, pair, fl, ctor, dec>>
\* what no operation of a strategy itself changes: its configuration and the
\* components around it
cfgVars == <<kind, delay, max_wait, compVars>>
vars == <<cfgVars, now, trailingVars, actorVars, pc, obsVars>>

Min(a, b) == IF a <= b THEN a ELSE b

\* asyncio.Event.set(): every caller suspended in wait() is made ready.
Woken(p) == [c \in Consumers |-> IF p[c] = "waiting" THEN "woken" ELSE p[c]]

\* a flush, as observed: the batch, what triggered it, and the time between
\* the pushes of its first and last event
FlushEntry(batch, cause) ==
    [batch |-> batch, cause |-> cause,
     span |-> IF batch = <<>> THEN 0 ELSE ptime[Len(batch)] - ptime[1]]

\* callers suspended in next_batch
Suspended == {c \in Consumers : pc[c] \in {"waiting", "woken"}}

\* a next_batch call of c returns: the batch a lone push was waiting to be
\* delivered in is now delivered (solo keeps its event, negated), and c is
\* no longer held by a shutdown
Returned(c) ==
    /\ solo' = IF solo > 0 THEN 0 - solo ELSE 0
    /\ held' = held \ {c}

\* a push made at least delay after the previous one, with nothing pending
SoloAfterPush(quiescent) ==
    IF quiescent /\ (last_push = None \/ now - last_push >= delay)
    THEN npush + 1
    ELSE 0

\* next_batch calls made so far (returned or still suspended)
NextBatchCalls == Len(got) + Cardinality({c \in Consumers : pc[c] # "idle"})

Unused == [used |-> FALSE]

\* the fields of a newly constructed strategy, and an event loop at time 0
Fresh ==
    /\ now = 0
    /\ buffer = <<>>
    /\ timer_handle = None
    /\ max_wait_handle = None
    /\ flush_event = FALSE
    /\ last_batch = <<>>
    /\ closed = FALSE
    /\ rx = <<>>
    /\ tx = <<>>
    /\ task = "none"
    /\ actor_buffer = <<>>
    /\ deadline = None
    /\ max_deadline = None
    /\ actor_last_batch = <<>>
    /\ getters = <<>>
    /\ stalled = FALSE
    /\ solo = 0
    /\ held = {}
    /\ pc = [c \in Consumers |-> "idle"]
    /\ npush = 0
    /\ ptime = <<>>
    /\ last_push = None
    /\ flushLog = <<>>
    /\ got = <<>>
    /\ flush_result = <<>>
    /\ calls = [flush |-> 0, shutdown |-> 0]

Init ==
    /\ kind \in Kinds
    /\ delay = Delay
    /\ max_wait \in {None, MinWait, MaxWait}
    /\ ad = Unused
    /\ db = Unused
    /\ sm = Unused
    /\ pair = Unused
    /\ fl = Unused
    /\ ctor = Unused
    /\ dec = Unused
    /\ lp = Unused
    /\ Fresh

\* ---------------------------------------------------------------------------
\* TrailingDebouncer
\* ---------------------------------------------------------------------------

\* nothing is pending: the buffer is empty and every flush has been consumed
TrQuiescent ==
    /\ buffer = <<>>
    /\ ~flush_event
    /\ \A c \in Consumers : pc[c] # "woken"

\* mutant: the max-wait timer is re-armed by every push
ArmMaxWait_Rearm(buf, handle) ==
    IF max_wait # None THEN now + max_wait ELSE handle

\* push, lines 60-61: the max-wait timer is armed only on an empty buffer.
ArmMaxWait(buf, handle) ==
    IF buf = <<>> /\ max_wait # None THEN now + max_wait ELSE handle

\* mutant: a pending quiet timer is left as it is
ArmTimer_NoReset(handle) == IF handle >= 0 THEN handle ELSE now + delay

\* push, lines 65-68: the quiet timer is cancelled and re-armed.
ArmTimer(handle) == now + delay

\* push(), but for the variables around the strategy
TrPushBody ==
    /\ kind = "trailing"
    /\ UNCHANGED <<actorVars, stalled>>
    /\ solo' = SoloAfterPush(TrQuiescent)
    /\ UNCHANGED held
    /\ npush < MaxPush
    /\ max_wait_handle' = ArmMaxWait(buffer, max_wait_handle)
    /\ buffer' = Append(buffer, npush + 1)
    /\ timer_handle' = ArmTimer(timer_handle)
    /\ npush' = npush + 1
    /\ ptime' = Append(ptime, now)
    /\ last_push' = now
    /\ UNCHANGED <<now, flush_event, last_batch, closed, pc,
                   flushLog, got, flush_result, calls>>

\* push()
TrPush == TrPushBody /\ UNCHANGED cfgVars

\* mutant: _do_flush leaves both timers as they are
DoFlushFields_KeepTimers(cause) ==
    /\ UNCHANGED <<timer_handle, max_wait_handle>>
    /\ last_batch' = buffer
    /\ buffer' = <<>>
    /\ flushLog' = Append(flushLog, FlushEntry(buffer, cause))
    /\ ptime' = <<>>

\* mutant: the flushed batch is added to the last one instead of replacing it
DoFlushFields_Accumulate(cause) ==
    /\ timer_handle' = None
    /\ max_wait_handle' = None
    /\ last_batch' = last_batch \o buffer
    /\ buffer' = <<>>
    /\ flushLog' = Append(flushLog, FlushEntry(buffer, cause))
    /\ ptime' = <<>>

\* _do_flush on a non-empty buffer: swap the buffer out, cancel both timers,
\* set the flush event.
DoFlushFields(cause) ==
    /\ timer_handle' = None
    /\ max_wait_handle' = None
    /\ last_batch' = buffer
    /\ buffer' = <<>>
    /\ flushLog' = Append(flushLog, FlushEntry(buffer, cause))
    /\ ptime' = <<>>

\* asyncio.Event.set() as called from _do_flush.
EventSet ==
    /\ flush_event' = TRUE
    /\ pc' = IF flush_event THEN pc ELSE Woken(pc)

\* mutant: _do_flush without its guard on the empty buffer
do_flush_NoGuard(cause) == DoFlushFields(cause) /\ EventSet

\* _do_flush
do_flush(cause) ==
    IF buffer = <<>>
    THEN UNCHANGED <<buffer, timer_handle, max_wait_handle, last_batch,
                     flush_event, pc, flushLog, ptime>>
    ELSE DoFlushFields(cause) /\ EventSet

\* which deadline a timer-driven flush is due to
TimerCause ==
    IF max_wait_handle >= 0 /\ now >= max_wait_handle THEN "cap" ELSE "quiet"

\* the quiet timer's callback runs (loop.call_later(self.delay, self._do_flush))
TrTimerFire ==
    /\ kind = "trailing"
    /\ UNCHANGED <<actorVars, stalled>>
    /\ UNCHANGED <<solo, held>>
    /\ timer_handle >= 0
    /\ now >= timer_handle
    /\ IF buffer = <<>>
       THEN /\ timer_handle' = Spent
            /\ UNCHANGED <<buffer, max_wait_handle, last_batch, flush_event, pc, flushLog, ptime>>
       ELSE do_flush(TimerCause)
    /\ UNCHANGED <<cfgVars, now, closed, npush, last_push, got, flush_result, calls>>

\* the max-wait timer's callback runs (loop.call_later(self.max_wait, self._do_flush))
TrMaxWaitFire ==
    /\ kind = "trailing"
    /\ UNCHANGED <<actorVars, stalled>>
    /\ UNCHANGED <<solo, held>>
    /\ max_wait_handle >= 0
    /\ now >= max_wait_handle
    /\ IF buffer = <<>>
       THEN /\ max_wait_handle' = Spent
            /\ UNCHANGED <<buffer, timer_handle, last_batch, flush_event, pc, flushLog, ptime>>
       ELSE do_flush("cap")
    /\ UNCHANGED <<cfgVars, now, closed, npush, last_push, got, flush_result, calls>>

\* mutant: flush() returns what it has just flushed, nothing on an empty buffer
TrFlushBody_ReturnsFlushed(n) ==
    /\ kind = "trailing"
    /\ UNCHANGED <<actorVars, stalled>>
    /\ UNCHANGED <<solo, held>>
    /\ calls.flush < n
    /\ do_flush("flush")
    /\ flush_result' = buffer
    /\ calls' = [calls EXCEPT !.flush = @ + 1]
    /\ UNCHANGED <<now, closed, npush, last_push, got>>

\* flush(), called up to n times, but for the variables around the strategy
TrFlushBody(n) ==
    /\ kind = "trailing"
    /\ UNCHANGED <<actorVars, stalled>>
    /\ UNCHANGED <<solo, held>>
    /\ calls.flush < n
    /\ do_flush("flush")
    /\ flush_result' = last_batch'
    /\ calls' = [calls EXCEPT !.flush = @ + 1]
    /\ UNCHANGED <<now, closed, npush, last_push, got>>

\* flush()
TrFlush == TrFlushBody(MaxFlushCalls) /\ UNCHANGED cfgVars

\* the fields of a TrailingDebouncer, with its suspended callers
TrState ==
    [buffer |-> buffer, timer_handle |-> timer_handle,
     max_wait_handle |-> max_wait_handle, flush_event |-> flush_event,
     last_batch |-> last_batch, closed |-> closed, pc |-> pc]

\* mutant: shutdown() without its own flush_event.set()
shutdown_NoSet(s) ==
    [closed |-> TRUE,
     buffer |-> <<>>,
     timer_handle |-> IF s.buffer = <<>> THEN s.timer_handle ELSE None,
     max_wait_handle |-> IF s.buffer = <<>> THEN s.max_wait_handle ELSE None,
     last_batch |-> IF s.buffer = <<>> THEN s.last_batch ELSE s.buffer,
     flush_event |-> IF s.buffer = <<>> THEN s.flush_event ELSE TRUE,
     pc |-> IF s.buffer = <<>> \/ s.flush_event THEN s.pc ELSE Woken(s.pc)]

\* shutdown() as a function of the fields: closed = True; flush();
\* flush_event.set()
shutdown(s) ==
    [closed |-> TRUE,
     buffer |-> <<>>,
     timer_handle |-> IF s.buffer = <<>> THEN s.timer_handle ELSE None,
     max_wait_handle |-> IF s.buffer = <<>> THEN s.max_wait_handle ELSE None,
     last_batch |-> IF s.buffer = <<>> THEN s.last_batch ELSE s.buffer,
     flush_event |-> TRUE,
     pc |-> IF s.flush_event THEN s.pc ELSE Woken(s.pc)]

\* shutdown(), but for the variables around the strategy
TrShutdownBody ==
    /\ kind = "trailing"
    /\ UNCHANGED <<actorVars, stalled>>
    /\ held' = held \cup Suspended
    /\ UNCHANGED solo
    /\ calls.shutdown < MaxShutdownCalls
    /\ LET s == shutdown(TrState) IN
        /\ closed' = s.closed
        /\ buffer' = s.buffer
        /\ timer_handle' = s.timer_handle
        /\ max_wait_handle' = s.max_wait_handle
        /\ last_batch' = s.last_batch
        /\ flush_event' = s.flush_event
        /\ pc' = s.pc
    /\ flushLog' = IF buffer = <<>> THEN flushLog
                   ELSE Append(flushLog, FlushEntry(buffer, "shutdown"))
    /\ ptime' = IF buffer = <<>> THEN ptime ELSE <<>>
    /\ calls' = [calls EXCEPT !.shutdown = @ + 1]
    /\ UNCHANGED <<now, npush, last_push, got, flush_result>>

\* shutdown()
TrShutdown == TrShutdownBody /\ UNCHANGED cfgVars

\* next_batch(), up to the await: Event.wait() returns at once when the event
\* is set, and the caller clears it and returns _last_batch; else it suspends.
TrNextBatchCallBody(c) ==
    /\ kind = "trailing"
    /\ UNCHANGED <<actorVars, stalled>>
    /\ pc[c] = "idle"
    /\ NextBatchCalls < MaxCalls
    /\ IF flush_event
       THEN /\ flush_event' = FALSE
            /\ got' = Append(got, last_batch)
            /\ pc' = pc
            /\ Returned(c)
       ELSE /\ pc' = [pc EXCEPT ![c] = "waiting"]
            /\ UNCHANGED <<flush_event, got, solo, held>>
    /\ UNCHANGED <<now, buffer, timer_handle, max_wait_handle, last_batch,
                   closed, npush, ptime, last_push, flushLog, flush_result, calls>>

TrNextBatchCall(c) == TrNextBatchCallBody(c) /\ UNCHANGED cfgVars

\* next_batch(), after the await: a released caller clears the event and
\* returns _last_batch as it is when the caller runs.
TrNextBatchResumeBody(c) ==
    /\ kind = "trailing"
    /\ UNCHANGED <<actorVars, stalled>>
    /\ Returned(c)
    /\ pc[c] = "woken"
    /\ flush_event' = FALSE
    /\ got' = Append(got, last_batch)
    /\ pc' = [pc EXCEPT ![c] = "idle"]
    /\ UNCHANGED <<now, buffer, timer_handle, max_wait_handle, last_batch,
                   closed, npush, ptime, last_push, flushLog, flush_result, calls>>

TrNextBatchResume(c) == TrNextBatchResumeBody(c) /\ UNCHANGED cfgVars

\* ---------------------------------------------------------------------------
\* CoalescingActorStrategy and its debounce_actor task
\* ---------------------------------------------------------------------------

\* nothing is pending: both channels and the task's buffer are empty
AcQuiescent ==
    /\ rx = <<>>
    /\ tx = <<>>
    /\ actor_buffer = <<>>
    /\ \A c \in Consumers : pc[c] # "woken"

\* debounce_actor, lines 40-45: min(deadline, max_deadline)
EffectiveDeadline(d, md) == IF md # None THEN Min(d, md) ELSE d

\* mutant: the cap deadline is moved by every message
NewMaxDeadline_Rearm(buf, md) ==
    IF max_wait # None THEN now + max_wait ELSE md

\* debounce_actor, lines 58-59: the cap deadline is set on an empty buffer
NewMaxDeadline(buf, md) ==
    IF buf = <<>> /\ max_wait # None THEN now + max_wait ELSE md

\* mutant: the quiet deadline is not clipped to the cap
NewDeadline_NoClip(md) == now + delay

\* debounce_actor, lines 62-65: the quiet deadline, clipped to the cap
NewDeadline(md) == IF md # None THEN Min(now + delay, md) ELSE now + delay

\* which deadline the task's pending flush is due to
ActorCause ==
    IF max_deadline # None /\ deadline >= max_deadline THEN "cap" ELSE "quiet"

\* asyncio.Queue.put_nowait on _tx: append, wake the first suspended getter
TxPut(batch, cause) ==
    /\ tx' = Append(tx, batch)
    /\ IF getters = <<>>
       THEN UNCHANGED <<getters, pc>>
       ELSE /\ getters' = Tail(getters)
            /\ pc' = [pc EXCEPT ![Head(getters)] = "woken"]
    /\ flushLog' = Append(flushLog, FlushEntry(batch, cause))
    /\ ptime' = SubSeq(ptime, Len(batch) + 1, Len(ptime))

\* _ensure_task: a missing or finished task is replaced by a new one, whose
\* locals start empty (debounce_actor, lines 32-34)
ensure_task ==
    IF task \in {"none", "done"}
    THEN /\ task' = "get"
         /\ actor_buffer' = <<>>
         /\ deadline' = None
         /\ max_deadline' = None
    ELSE UNCHANGED <<task, actor_buffer, deadline, max_deadline>>

\* the task ends: its frame (buffer, deadline, max_deadline) is gone
TaskEnds ==
    /\ task' = "done"
    /\ actor_buffer' = <<>>
    /\ deadline' = None
    /\ max_deadline' = None

\* debounce_actor: rx.get() delivers a message (lines 47-65)
ActorRecv ==
    /\ kind = "actor"
    /\ UNCHANGED <<solo, held>>
    /\ task = "get"
    /\ rx # <<>>
    /\ rx' = Tail(rx)
    /\ IF Head(rx) = STOP
       THEN IF actor_buffer = <<>>
            THEN /\ TaskEnds
                 /\ UNCHANGED <<tx, getters, pc, flushLog, ptime, stalled>>
            ELSE IF Len(tx) < MaxOutputQueue
                 THEN /\ TxPut(actor_buffer, "stop")
                      /\ TaskEnds
                      /\ UNCHANGED stalled
                 ELSE /\ task' = "put_stop"
                      /\ stalled' = TRUE
                      /\ UNCHANGED <<actor_buffer, deadline, max_deadline,
                                     tx, getters, pc, flushLog, ptime>>
       ELSE /\ max_deadline' = NewMaxDeadline(actor_buffer, max_deadline)
            /\ actor_buffer' = Append(actor_buffer, Head(rx))
            /\ deadline' = NewDeadline(max_deadline')
            /\ UNCHANGED <<task, tx, getters, pc, flushLog, ptime, stalled>>
    /\ UNCHANGED <<cfgVars, now, trailingVars, actor_last_batch,
                   npush, last_push, got, flush_result, calls>>

\* mutant: on a full output queue the batch is dropped instead of awaited
ActorTimeout_DropOnFull ==
    /\ kind = "actor"
    /\ UNCHANGED <<solo, held>>
    /\ task = "get"
    /\ deadline # None
    /\ now >= EffectiveDeadline(deadline, max_deadline)
    /\ IF actor_buffer = <<>>
       THEN UNCHANGED <<task, actor_buffer, deadline, max_deadline,
                        tx, getters, pc, flushLog, ptime, stalled>>
       ELSE /\ IF Len(tx) < MaxOutputQueue
               THEN /\ TxPut(actor_buffer, ActorCause)
                    /\ UNCHANGED stalled
               ELSE /\ ptime' = SubSeq(ptime, Len(actor_buffer) + 1, Len(ptime))
                    /\ stalled' = TRUE
                    /\ UNCHANGED <<tx, getters, pc, flushLog>>
            /\ actor_buffer' = <<>>
            /\ deadline' = None
            /\ max_deadline' = None
            /\ UNCHANGED task
    /\ UNCHANGED <<cfgVars, now, trailingVars, rx, actor_last_batch,
                   npush, last_push, got, flush_result, calls>>

\* debounce_actor: wait_for times out (lines 67-72)
ActorTimeout ==
    /\ kind = "actor"
    /\ UNCHANGED <<solo, held>>
    /\ task = "get"
    /\ deadline # None
    /\ now >= EffectiveDeadline(deadline, max_deadline)
    /\ IF actor_buffer = <<>>
       THEN UNCHANGED <<task, actor_buffer, deadline, max_deadline,
                        tx, getters, pc, flushLog, ptime, stalled>>
       ELSE IF Len(tx) < MaxOutputQueue
            THEN /\ TxPut(actor_buffer, ActorCause)
                 /\ actor_buffer' = <<>>
                 /\ deadline' = None
                 /\ max_deadline' = None
                 /\ UNCHANGED <<task, stalled>>
            ELSE /\ task' = "put"
                 /\ stalled' = TRUE
                 /\ UNCHANGED <<actor_buffer, deadline, max_deadline,
                                tx, getters, pc, flushLog, ptime>>
    /\ UNCHANGED <<cfgVars, now, trailingVars, rx, actor_last_batch,
                   npush, last_push, got, flush_result, calls>>

\* debounce_actor: a tx.put() that was suspended on the full queue completes
ActorPutResume ==
    /\ kind = "actor"
    /\ UNCHANGED <<solo, held>>
    /\ task \in {"put", "put_stop"}
    /\ Len(tx) < MaxOutputQueue
    /\ IF task = "put"
       THEN /\ TxPut(actor_buffer, ActorCause)
            /\ actor_buffer' = <<>>
            /\ deadline' = None
            /\ max_deadline' = None
            /\ task' = "get"
       ELSE /\ TxPut(actor_buffer, "stop")
            /\ TaskEnds
    /\ UNCHANGED <<cfgVars, now, trailingVars, rx, actor_last_batch,
                   npush, last_push, got, flush_result, calls, stalled>>

\* push(): _ensure_task(); _rx.put_nowait(message), which raises QueueFull
\* on a full queue
AcPush ==
    /\ kind = "actor"
    /\ npush < MaxPush
    /\ ensure_task
    /\ IF Len(rx) < MaxInputQueue
       THEN /\ rx' = Append(rx, npush + 1)
            /\ npush' = npush + 1
            /\ ptime' = Append(ptime, now)
            /\ last_push' = now
            /\ solo' = SoloAfterPush(AcQuiescent)
       ELSE UNCHANGED <<rx, npush, ptime, last_push, solo>>
    /\ UNCHANGED held
    /\ UNCHANGED <<cfgVars, now, trailingVars, tx, actor_last_batch, getters, pc,
                   flushLog, got, flush_result, calls, stalled>>

\* asyncio.Queue.get on _tx, then self._last_batch = ...; return
TxTake(c) ==
    /\ tx' = Tail(tx)
    /\ actor_last_batch' = Head(tx)
    /\ got' = Append(got, Head(tx))
    /\ pc' = [pc EXCEPT ![c] = "idle"]
    /\ Returned(c)
    /\ UNCHANGED getters

\* asyncio.Queue.get on an empty _tx: the caller joins the getters and suspends
TxWait(c) ==
    /\ pc' = [pc EXCEPT ![c] = "waiting"]
    /\ getters' = Append(getters, c)
    /\ UNCHANGED <<tx, actor_last_batch, got, solo, held>>

\* next_batch(), up to the await
AcNextBatchCall(c) ==
    /\ kind = "actor"
    /\ pc[c] = "idle"
    /\ NextBatchCalls < MaxCalls
    /\ ensure_task
    /\ IF tx # <<>> THEN TxTake(c) ELSE TxWait(c)
    /\ UNCHANGED <<cfgVars, now, trailingVars, rx,
                   npush, ptime, last_push, flushLog, flush_result, calls, stalled>>

\* next_batch(), after the await: a woken getter takes a batch, or suspends
\* again when another caller took it first
AcNextBatchResume(c) ==
    /\ kind = "actor"
    /\ pc[c] = "woken"
    /\ IF tx # <<>> THEN TxTake(c) ELSE TxWait(c)
    /\ UNCHANGED <<cfgVars, now, trailingVars, rx, task, actor_buffer, deadline,
                   max_deadline, npush, ptime, last_push, flushLog, flush_result,
                   calls, stalled>>

\* mutant: flush() returns the batch the task emitted last
AcFlush_ReturnsEmitted ==
    /\ kind = "actor"
    /\ UNCHANGED <<solo, held>>
    /\ calls.flush < MaxFlushCalls
    /\ flush_result' = IF flushLog = <<>> THEN <<>>
                       ELSE flushLog[Len(flushLog)].batch
    /\ calls' = [calls EXCEPT !.flush = @ + 1]
    /\ UNCHANGED <<cfgVars, now, trailingVars, actorVars, pc,
                   npush, ptime, last_push, flushLog, got, stalled>>

\* flush(): return self._last_batch
AcFlush ==
    /\ kind = "actor"
    /\ UNCHANGED <<solo, held>>
    /\ calls.flush < MaxFlushCalls
    /\ flush_result' = actor_last_batch
    /\ calls' = [calls EXCEPT !.flush = @ + 1]
    /\ UNCHANGED <<cfgVars, now, trailingVars, actorVars, pc,
                   npush, ptime, last_push, flushLog, got, stalled>>

\* shutdown(): _rx.put_nowait(_STOP), which raises QueueFull on a full queue
shutdown_rx(q) == IF Len(q) < MaxInputQueue THEN Append(q, STOP) ELSE q

AcShutdown ==
    /\ kind = "actor"
    /\ calls.shutdown < MaxShutdownCalls
    /\ rx' = shutdown_rx(rx)
    /\ held' = IF Len(rx) < MaxInputQueue THEN held \cup Suspended ELSE held
    /\ UNCHANGED solo
    /\ calls' = [calls EXCEPT !.shutdown = @ + 1]
    /\ UNCHANGED <<cfgVars, now, trailingVars, tx, task, actor_buffer, deadline,
                   max_deadline, actor_last_batch, getters, pc,
                   npush, ptime, last_push, flushLog, got, flush_result, stalled>>

\* ---------------------------------------------------------------------------
\* the event loop's clock
\* ---------------------------------------------------------------------------
TimerDue(h) == h >= 0 /\ now >= h

\* something is ready to run now: the loop runs it before time passes
Ready ==
    \/ \E c \in Consumers : pc[c] = "woken"
    \/ kind = "trailing" /\ (TimerDue(timer_handle) \/ TimerDue(max_wait_handle))
    \/ /\ kind = "actor"
       /\ \/ task = "get" /\ rx # <<>>
          \/ task = "get" /\ deadline # None
                          /\ now >= EffectiveDeadline(deadline, max_deadline)
          \/ task \in {"put", "put_stop"} /\ Len(tx) < MaxOutputQueue

Tick ==
    /\ now < MaxTime
    /\ ~Ready
    /\ now' = now + 1
    /\ UNCHANGED <<cfgVars, trailingVars, actorVars, pc, obsVars>>

Next ==
    \/ TrPush
    \/ TrTimerFire
    \/ TrMaxWaitFire
    \/ TrFlush
    \/ TrShutdown
    \/ \E c \in Consumers : TrNextBatchCall(c)
    \/ \E c \in Consumers : TrNextBatchResume(c)
    \/ ActorRecv
    \/ ActorTimeout
    \/ ActorPutResume
    \/ AcPush
    \/ AcFlush
    \/ AcShutdown
    \/ \E c \in Consumers : AcNextBatchCall(c)
    \/ \E c \in Consumers : AcNextBatchResume(c)
    \/ Tick

Spec == Init /\ [][Next]_vars

\* In the fair specifications below the event loop runs every ready callback
\* and task, and time passes; the calls made from outside (push, next_batch,
\* flush, shutdown) need not happen.

\* a TrailingDebouncer alone, configured as documented (max_wait absent, or
\* at least delay)
TrailingInit == Init /\ kind = "trailing" /\ max_wait \in {None, MaxWait}

TrailingNext ==
    \/ TrPush
    \/ TrTimerFire
    \/ TrMaxWaitFire
    \/ TrFlush
    \/ TrShutdown
    \/ \E c \in Consumers : TrNextBatchCall(c)
    \/ \E c \in Consumers : TrNextBatchResume(c)
    \/ Tick

TrailingFairSpec ==
    /\ TrailingInit
    /\ [][TrailingNext]_vars
    /\ WF_vars(TrTimerFire)
    /\ WF_vars(TrMaxWaitFire)
    /\ WF_vars(Tick)
    /\ \A c \in Consumers : WF_vars(TrNextBatchResume(c))

\* a CoalescingActorStrategy alone
ActorInit == Init /\ kind = "actor"

ActorNext ==
    \/ ActorRecv
    \/ ActorTimeout
    \/ ActorPutResume
    \/ AcPush
    \/ AcFlush
    \/ AcShutdown
    \/ \E c \in Consumers : AcNextBatchCall(c)
    \/ \E c \in Consumers : AcNextBatchResume(c)
    \/ Tick

ActorFairSpec ==
    /\ ActorInit
    /\ [][ActorNext]_vars
    /\ WF_vars(ActorRecv)
    /\ WF_vars(ActorTimeout)
    /\ WF_vars(ActorPutResume)
    /\ WF_vars(Tick)
    /\ \A c \in Consumers : WF_vars(AcNextBatchResume(c))

\* ---------------------------------------------------------------------------
\* AdaptiveDebouncer (strategies/adaptive.py): a TrailingDebouncer (_inner)
\* whose delay every push but the first recomputes from a moving average of
\* the intervals between pushes
\* ---------------------------------------------------------------------------
Max(a, b) == IF a >= b THEN a ELSE b

AdIntervals == {FastInterval, SlowInterval}

\* mutant: the first push adapts too
HasLastTime_Always == TRUE

\* push, line 67: self._last_time is not None
HasLastTime == ad.last_time # None

\* push, line 69: alpha * interval + (1 - alpha) * ema, held as ema * EmaScale
NewEma(interval, ema) ==
    (AlphaNum * interval * EmaScale + (AlphaDen - AlphaNum) * ema) \div AlphaDen

\* mutant: the candidate delay is used as it is
NewDelay_NoClamp(ema) == (ema * MultNum) \div (MultDen * EmaScale)

\* push, line 70: max(min_delay, min(max_delay, ema * multiplier)), in ticks
NewDelay(ema) ==
    Max(ad.min_delay, Min(ad.max_delay, (ema * MultNum) \div (MultDen * EmaScale)))

\* AdaptiveDebouncer.__init__
AdaptiveInit ==
    /\ kind = "trailing"
    /\ delay \in {AdDelay * AdScale, AdDelayHigh * AdScale}
    /\ max_wait \in {None, AdMaxWait * AdScale}
    /\ ad \in [used : {TRUE}, ema : {0}, last_time : {None}, sleeps : {0},
                min_delay : {MinDelayTenths * AdScale, AdScale \div 10},
                max_delay : {MaxDelayTenths * AdScale}]
    /\ db = Unused
    /\ sm = Unused
    /\ pair = Unused
    /\ fl = Unused
    /\ ctor = Unused
    /\ dec = Unused
    /\ lp = Unused
    /\ Fresh

\* a timer that came due before this instant has yet to run its callback
Overdue(h) == h >= 0 /\ h < now

\* push(): adapt the delay, then _inner.push(message)
AdPush ==
    /\ kind = "trailing"
    /\ ad.used
    /\ npush < MaxPush
    /\ ~Overdue(timer_handle)
    /\ ~Overdue(max_wait_handle)
    /\ LET ema == IF HasLastTime THEN NewEma(now - ad.last_time, ad.ema) ELSE ad.ema
       IN /\ ad' = [ad EXCEPT !.ema = ema, !.last_time = now]
          /\ delay' = IF HasLastTime THEN NewDelay(ema) ELSE delay
    /\ max_wait_handle' = ArmMaxWait(buffer, max_wait_handle)
    /\ buffer' = Append(buffer, npush + 1)
    /\ timer_handle' = now + delay'
    /\ npush' = npush + 1
    /\ ptime' = Append(ptime, now)
    /\ last_push' = now
    /\ solo' = 0
    /\ UNCHANGED <<kind, max_wait, now, flush_event, last_batch, closed, pc,
                   actorVars, flushLog, got, flush_result, calls, stalled, held,
                   exceptAd>>

\* time passes between two calls, while nothing is ready to run
AdSleep ==
    /\ ad.used
    /\ ~Ready
    /\ ad.sleeps < MaxSleeps
    /\ ad' = [ad EXCEPT !.sleeps = @ + 1]
    /\ \E d \in AdIntervals : now' = now + d * AdScale
    /\ UNCHANGED <<kind, delay, max_wait, trailingVars, actorVars, pc, obsVars,
                   exceptAd>>

\* pushes, the timers of _inner, and next_batch, which passes the call to
\* _inner (lines 76-78); flush() and shutdown(), passed to _inner as well,
\* are not called
AdaptiveNext ==
    \/ AdPush
    \/ AdSleep
    \/ TrTimerFire
    \/ TrMaxWaitFire
    \/ \E c \in Consumers : TrNextBatchCall(c)
    \/ \E c \in Consumers : TrNextBatchResume(c)

AdaptiveSpec == AdaptiveInit /\ [][AdaptiveNext]_vars

\* ---------------------------------------------------------------------------
\* Debouncer (core.py): the facade over the strategy that build_strategy
\* makes from a DebounceConfig, a TrailingDebouncer
\* ---------------------------------------------------------------------------

\* DebounceConfig.__post_init__: delay > 0, max_wait None or >= delay;
\* Debouncer.__init__: _closed = False
FacadeInit ==
    /\ kind = "trailing"
    /\ delay = Delay
    /\ max_wait \in {None, MaxWait}
    /\ ad = Unused
    /\ db = [used |-> TRUE, closed |-> FALSE, raised |-> {}, closes |-> 0,
             set |-> [value |-> None, ok |-> TRUE]]
    /\ sm = Unused
    /\ pair = Unused
    /\ fl = Unused
    /\ ctor = Unused
    /\ dec = Unused
    /\ lp = Unused
    /\ Fresh

\* mutant: _ensure_open never raises
IsClosed_Never == FALSE

\* _ensure_open: if self._closed
IsClosed == db.closed

\* _ensure_open raises RuntimeError("Debouncer is closed") out of operation op
Raise(op) ==
    /\ db' = [db EXCEPT !.raised = @ \cup {op}]
    /\ UNCHANGED <<kind, delay, max_wait, exceptDb, now, trailingVars,
                   actorVars, pc, obsVars>>

\* push(): _ensure_open(), then _strategy.push(message)
DbPush ==
    /\ db.used
    /\ IF IsClosed THEN Raise("push") ELSE TrPush

\* next_batch(): _ensure_open(), then await _strategy.next_batch()
DbNextBatchCall(c) ==
    /\ db.used
    /\ pc[c] = "idle"
    /\ IF IsClosed THEN Raise("next_batch") ELSE TrNextBatchCall(c)

\* flush(): _strategy.flush(), open or closed
DbFlush == db.used /\ TrFlush

\* close(): nothing when closed already; else _closed = True and
\* _strategy.shutdown()
DbClose ==
    /\ db.used
    /\ db.closes < MaxCloses
    /\ IF db.closed
       THEN /\ db' = [db EXCEPT !.closes = @ + 1]
            /\ UNCHANGED <<kind, delay, max_wait, exceptDb, now, trailingVars,
                           actorVars, pc, obsVars>>
       ELSE /\ db' = [db EXCEPT !.closed = TRUE, !.closes = @ + 1]
            /\ TrShutdownBody
            /\ UNCHANGED <<kind, delay, max_wait, exceptDb>>

FacadeNext ==
    \/ DbPush
    \/ \E c \in Consumers : DbNextBatchCall(c)
    \/ DbFlush
    \/ DbClose
    \/ TrTimerFire
    \/ TrMaxWaitFire
    \/ \E c \in Consumers : TrNextBatchResume(c)
    \/ Tick

FacadeSpec == FacadeInit /\ [][FacadeNext]_vars

\* the values given to the delay setter
DelayValues == 0..(MaxWait + 1)

\* mutant: the setter does not compare the value with max_wait
ValidDelay_NoUpper(v) == v > 0

\* delay setter, lines 35-38: the value passes both checks
ValidDelay(v) == v > 0 /\ (max_wait = None \/ v <= max_wait)

\* delay setter: ValueError, or self._strategy.delay = value; set: the value of
\* the last call and whether it returned
DbSetDelay(v) ==
    /\ db.used
    /\ IF ValidDelay(v)
       THEN /\ delay' = v
            /\ db' = [db EXCEPT !.set = [value |-> v, ok |-> TRUE]]
       ELSE /\ delay' = delay
            /\ db' = [db EXCEPT !.set = [value |-> v, ok |-> FALSE],
                                !.raised = @ \cup {"delay"}]
    /\ UNCHANGED <<kind, max_wait, exceptDb, now, trailingVars, actorVars, pc, obsVars>>

\* the facade with its setter, pushes and the strategy's timers
SetterNext ==
    \/ \E v \in DelayValues : DbSetDelay(v)
    \/ DbPush
    \/ DbClose
    \/ TrTimerFire
    \/ TrMaxWaitFire
    \/ Tick

SetterSpec == FacadeInit /\ [][SetterNext]_vars

\* Debouncer.batches() (core.py 56-62), iterated by one consumer task, c1,
\* whose loop body does not suspend: having taken a batch it asks for the next
\* at once. it: where the iterator is; yielded: the batches it has yielded
BatchesInit ==
    /\ kind = "trailing"
    /\ delay = Delay
    /\ max_wait \in {None, MaxWait}
    /\ ad = Unused
    /\ db = [used |-> TRUE, closed |-> FALSE, raised |-> {}, closes |-> 0,
             set |-> [value |-> None, ok |-> TRUE],
             it |-> "idle", yielded |-> <<>>]
    /\ sm = Unused
    /\ pair = Unused
    /\ fl = Unused
    /\ ctor = Unused
    /\ dec = Unused
    /\ lp = Unused
    /\ Fresh

\* lines 60-62, with the batch next_batch returned: break, or yield batch
AfterNextBatch(d, batch) ==
    IF d.closed /\ batch = <<>>
    THEN [d EXCEPT !.it = "done"]
    ELSE [d EXCEPT !.it = "yielded", !.yielded = Append(@, batch)]

\* lines 58-59: while not self._closed: batch = await _strategy.next_batch()
BatchesEnter ==
    /\ db.used
    /\ db.it \in {"idle", "yielded"}
    /\ IF IsClosed
       THEN /\ db' = [db EXCEPT !.it = "done"]
            /\ UNCHANGED <<kind, delay, max_wait, exceptDb, now, trailingVars,
                           actorVars, pc, obsVars>>
       ELSE /\ TrNextBatchCallBody("c1")
            /\ db' = IF flush_event THEN AfterNextBatch(db, last_batch)
                     ELSE [db EXCEPT !.it = "waiting"]
            /\ UNCHANGED <<kind, delay, max_wait, exceptDb>>

\* lines 59-62: next_batch returns to the released iterator
BatchesResume ==
    /\ db.used
    /\ db.it = "waiting"
    /\ TrNextBatchResumeBody("c1")
    /\ db' = AfterNextBatch(db, last_batch)
    /\ UNCHANGED <<kind, delay, max_wait, exceptDb>>

\* the consumer is iterating and is not between a yield and its next request
Iterating == db.it \notin {"idle", "yielded"}

\* the producer, the timers and the clock, while the consumer iterates
BtPush == Iterating /\ DbPush
BtClose == Iterating /\ DbClose
BtTimerFire == Iterating /\ TrTimerFire
BtMaxWaitFire == Iterating /\ TrMaxWaitFire
BtTick == Iterating /\ Tick

BatchesNext ==
    \/ BatchesEnter
    \/ BatchesResume
    \/ BtPush
    \/ BtClose
    \/ BtTimerFire
    \/ BtMaxWaitFire
    \/ BtTick

BatchesSpec == BatchesInit /\ [][BatchesNext]_vars

\* ---------------------------------------------------------------------------
\* SessionManager (session.py): a map from session ids to handles, each with
\* an input queue, an output queue and a debounce_actor task between them; a
\* reaper task (_gc_loop); one threading.Lock around the map
\* ---------------------------------------------------------------------------
Sessions == {"a", "b"}

session_timeout == 2 * GcPeriod

\* _spawn_actor: empty queues, a new debounce_actor task, last_activity = now.
\* getter: a next_batch caller is suspended in output_queue.get(); putter: the
\* message of a push suspended in input_queue.put(), or None; reaped and
\* atreap: the reaper removed the handle, and the events it then held unflushed
NewHandle(sid) ==
    [sid |-> sid, rx |-> <<>>, tx |-> <<>>, task |-> "get", buf |-> <<>>,
     deadline |-> None, max_deadline |-> None, last_activity |-> now,
     getter |-> FALSE, putter |-> None, reaped |-> FALSE, atreap |-> {}]

\* SessionManager.__init__ (no argument is validated), with no session yet
SmInit ==
    /\ kind = "actor"
    /\ delay \in {SmDelay, SmLongDelay}
    /\ max_wait = None
    /\ ad = Unused
    /\ db = Unused
    /\ pair = Unused
    /\ sm = [used |-> TRUE,
             map |-> [s \in Sessions |-> 0],
             handles |-> <<>>,
             lock |-> "free",
             gc |-> [state |-> "none", wake |-> None, cur |-> 0, todo |-> <<>>],
             cl |-> [state |-> "none", cur |-> 0, todo |-> <<>>],
             blocked |-> [op |-> "none", sid |-> "none"],
             delivered |-> [s \in Sessions |-> <<>>],
             n |-> 0, ncalls |-> 0, ncloses |-> 0]
    /\ fl = Unused
    /\ ctor = Unused
    /\ dec = Unused
    /\ lp = Unused
    /\ Fresh

\* what no operation of the SessionManager touches
SmFrame == <<kind, delay, max_wait, exceptSm, trailingVars, actorVars, pc, obsVars>>

\* the handles in the map, in the order of the dict (insertion order)
RECURSIVE MappedFrom(_, _)
MappedFrom(s, i) ==
    IF i > Len(s.handles) THEN <<>>
    ELSE IF s.map[s.handles[i].sid] = i
         THEN <<i>> \o MappedFrom(s, i + 1)
         ELSE MappedFrom(s, i + 1)

GetOrCreate_Always(s, sid) ==
    [s EXCEPT !.handles = Append(@, NewHandle(sid)),
              !.map[sid] = Len(s.handles) + 1]

\* _get_or_create, inside the lock: the manager with a handle for sid
GetOrCreate(s, sid) ==
    IF s.map[sid] # 0 THEN s
    ELSE [s EXCEPT !.handles = Append(@, NewHandle(sid)),
                   !.map[sid] = Len(s.handles) + 1]

\* with self._lock, called on the event loop's thread while a suspended
\* coroutine holds the lock: Lock.acquire() never returns, and nothing on
\* the loop runs again
BlocksThread(op, sid) ==
    sm' = [sm EXCEPT !.blocked = [op |-> op, sid |-> sid]]

Running == sm.used /\ sm.blocked.op = "none"

\* push(session_id, message), the n-th at most, with at most hmax handles
SmPushBody(sid, n, hmax) ==
    /\ Running
    /\ sm.n < n
    /\ IF sm.lock # "free"
       THEN BlocksThread("push", sid)
       ELSE /\ sm.map[sid] = 0 => Len(sm.handles) < hmax
            /\ LET s == GetOrCreate(sm, sid)
                   i == s.map[sid]
                   h == s.handles[i]
               IN /\ h.putter = None
                  /\ sm' = [s EXCEPT
                        !.n = @ + 1,
                        !.handles[i] =
                            IF Len(h.rx) < SmQueueSize
                            THEN [h EXCEPT !.last_activity = now,
                                           !.rx = Append(@, sm.n + 1)]
                            ELSE [h EXCEPT !.last_activity = now,
                                           !.putter = sm.n + 1]]
    /\ UNCHANGED <<now, SmFrame>>

SmPush(sid) == SmPushBody(sid, MaxSmPush, MaxHandles)

\* a push suspended on the full input queue completes
SmPushResume(i) ==
    /\ Running
    /\ i \in 1..Len(sm.handles)
    /\ sm.handles[i].putter # None
    /\ Len(sm.handles[i].rx) < SmQueueSize
    /\ sm' = [sm EXCEPT !.handles[i].rx = Append(@, sm.handles[i].putter),
                        !.handles[i].putter = None]
    /\ UNCHANGED <<now, SmFrame>>

\* next_batch(session_id): the handle's output_queue.get(); the n-th call at
\* most, with at most hmax handles
SmNextBatchBody(sid, n, hmax) ==
    /\ Running
    /\ sm.ncalls < n
    /\ IF sm.lock # "free"
       THEN BlocksThread("next_batch", sid)
       ELSE /\ sm.map[sid] = 0 => Len(sm.handles) < hmax
            /\ LET s == GetOrCreate(sm, sid)
                   i == s.map[sid]
                   h == s.handles[i]
               IN /\ ~h.getter
                  /\ sm' = IF h.tx # <<>>
                           THEN [s EXCEPT !.ncalls = @ + 1,
                                          !.handles[i].tx = Tail(@),
                                          !.delivered[sid] = Append(@, Head(h.tx))]
                           ELSE [s EXCEPT !.ncalls = @ + 1,
                                          !.handles[i].getter = TRUE]
    /\ UNCHANGED <<now, SmFrame>>

SmNextBatch(sid) == SmNextBatchBody(sid, MaxSmCalls, MaxHandles)

\* a next_batch call suspended on the empty output queue returns
SmNextBatchResume(i) ==
    /\ Running
    /\ i \in 1..Len(sm.handles)
    /\ sm.handles[i].getter
    /\ sm.handles[i].tx # <<>>
    /\ sm' = [sm EXCEPT
            !.handles[i].getter = FALSE,
            !.handles[i].tx = Tail(@),
            !.delivered[sm.handles[i].sid] = Append(@, Head(sm.handles[i].tx))]
    /\ UNCHANGED <<now, SmFrame>>

\* the debounce_actor task of a handle: one step of h, as ActorRecv,
\* ActorTimeout and ActorPutResume take it on the strategy's own task
HandleEmit(h, stop, size) ==
    IF Len(h.tx) < size
    THEN [h EXCEPT !.tx = Append(@, h.buf), !.buf = <<>>,
                   !.deadline = None, !.max_deadline = None,
                   !.task = IF stop THEN "done" ELSE "get"]
    ELSE [h EXCEPT !.task = IF stop THEN "put_stop" ELSE "put"]

HandleRecv(h, size) ==
    LET r == [h EXCEPT !.rx = Tail(@)] IN
    IF Head(h.rx) = STOP
    THEN IF h.buf = <<>>
         THEN [r EXCEPT !.task = "done", !.deadline = None, !.max_deadline = None]
         ELSE HandleEmit(r, TRUE, size)
    ELSE LET md == NewMaxDeadline(h.buf, h.max_deadline)
         IN [r EXCEPT !.max_deadline = md,
                      !.buf = Append(@, Head(h.rx)),
                      !.deadline = NewDeadline(md)]

SmWorkerRecv(i) ==
    /\ Running
    /\ i \in 1..Len(sm.handles)
    /\ sm.handles[i].task = "get"
    /\ sm.handles[i].rx # <<>>
    /\ sm' = [sm EXCEPT !.handles[i] = HandleRecv(@, SmOutputSize)]
    /\ UNCHANGED <<now, SmFrame>>

SmWorkerTimeout(i) ==
    /\ Running
    /\ i \in 1..Len(sm.handles)
    /\ sm.handles[i].task = "get"
    /\ sm.handles[i].deadline # None
    /\ now >= EffectiveDeadline(sm.handles[i].deadline, sm.handles[i].max_deadline)
    /\ sm.handles[i].buf # <<>>
    /\ sm' = [sm EXCEPT !.handles[i] = HandleEmit(@, FALSE, SmOutputSize)]
    /\ UNCHANGED <<now, SmFrame>>

SmWorkerPutResume(i) ==
    /\ Running
    /\ i \in 1..Len(sm.handles)
    /\ sm.handles[i].task \in {"put", "put_stop"}
    /\ Len(sm.handles[i].tx) < SmOutputSize
    /\ sm' = [sm EXCEPT !.handles[i] =
                HandleEmit(@, sm.handles[i].task = "put_stop", SmOutputSize)]
    /\ UNCHANGED <<now, SmFrame>>

\* start(): the reaper task is created and goes to sleep
SmStart ==
    /\ Running
    /\ sm.gc.state = "none"
    /\ sm.ncloses = 0
    /\ sm' = [sm EXCEPT !.gc = [state |-> "sleep", wake |-> now + GcPeriod,
                                cur |-> 0, todo |-> <<>>]]
    /\ UNCHANGED <<now, SmFrame>>

\* the events a handle holds unflushed: queued, being put, or in the buffer
Unflushed(h) ==
    ({h.rx[k] : k \in 1..Len(h.rx)} \cup {h.buf[k] : k \in 1..Len(h.buf)}
        \cup {h.putter}) \ {STOP, None}

\* _gc_loop, lines 135-137, inside the lock: for each idle session, pop it
\* from the map, then await input_queue.put(_STOP); on a full queue the task
\* is suspended there, the lock still held
RECURSIVE GcRemove(_, _)
GcRemove(s, todo) ==
    IF todo = <<>>
    THEN [s EXCEPT !.lock = "free",
                   !.gc = [state |-> "sleep", wake |-> now + GcPeriod,
                           cur |-> 0, todo |-> <<>>]]
    ELSE LET i == Head(todo)
             h == s.handles[i]
             p == [s EXCEPT !.map[h.sid] = 0,
                            !.handles[i].reaped = TRUE,
                            !.handles[i].atreap = Unflushed(h)]
         IN IF Len(h.rx) < SmQueueSize /\ h.putter = None
            THEN GcRemove([p EXCEPT !.handles[i].rx = Append(@, STOP)], Tail(todo))
            ELSE [p EXCEPT !.lock = "gc",
                           !.gc = [state |-> "put", wake |-> None,
                                   cur |-> i, todo |-> Tail(todo)]]

\* mutant: the reaper takes every session for idle
Idle_All(s) == MappedFrom(s, 1)

\* _gc_loop, lines 131-134: the sessions idle for longer than session_timeout
Idle(s) ==
    SelectSeq(MappedFrom(s, 1),
              LAMBDA i : now - s.handles[i].last_activity > session_timeout)

\* _gc_loop wakes from its sleep
SmGcWake ==
    /\ Running
    /\ sm.gc.state = "sleep"
    /\ now >= sm.gc.wake
    /\ IF sm.lock # "free"
       THEN BlocksThread("gc", "none")
       ELSE sm' = GcRemove(sm, Idle(sm))
    /\ UNCHANGED <<now, SmFrame>>

\* the reaper's put(_STOP), suspended on a full input queue, completes
SmGcPutResume ==
    /\ Running
    /\ sm.gc.state = "put"
    /\ Len(sm.handles[sm.gc.cur].rx) < SmQueueSize
    /\ sm.handles[sm.gc.cur].putter = None
    /\ sm' = GcRemove([sm EXCEPT !.handles[sm.gc.cur].rx = Append(@, STOP)],
                      sm.gc.todo)
    /\ UNCHANGED <<now, SmFrame>>

CloseStop_NoStop(s, todo) ==
    [s EXCEPT !.lock = "free",
              !.map = [x \in Sessions |-> 0],
              !.cl = [state |-> "none", cur |-> 0, todo |-> <<>>]]

\* close(), lines 120-123, inside the lock: await input_queue.put(_STOP) for
\* every handle, then clear the map
RECURSIVE CloseStop(_, _)
CloseStop(s, todo) ==
    IF todo = <<>>
    THEN [s EXCEPT !.lock = "free",
                   !.map = [x \in Sessions |-> 0],
                   !.cl = [state |-> "none", cur |-> 0, todo |-> <<>>]]
    ELSE LET i == Head(todo)
             h == s.handles[i]
         IN IF Len(h.rx) < SmQueueSize /\ h.putter = None
            THEN CloseStop([s EXCEPT !.handles[i].rx = Append(@, STOP)], Tail(todo))
            ELSE [s EXCEPT !.lock = "close",
                           !.cl = [state |-> "put", cur |-> i, todo |-> Tail(todo)]]

\* close(), the n-th at most: the reaper task is cancelled (suspended in
\* put(_STOP), it leaves the with block and so releases the lock) and has
\* ended before close goes on to stop the sessions. While an earlier close()
\* is suspended in its put(_STOP) there is no reaper left and the lock is
\* held: with self._lock never returns
SmCloseBody(n) ==
    /\ Running
    /\ sm.ncloses < n
    /\ IF sm.cl.state # "none"
       THEN BlocksThread("close", "none")
       ELSE LET s == [sm EXCEPT !.ncloses = @ + 1,
                                !.lock = "free",
                                !.gc = [state |-> "none", wake |-> None,
                                        cur |-> 0, todo |-> <<>>]]
            IN sm' = CloseStop(s, MappedFrom(s, 1))
    /\ UNCHANGED <<now, SmFrame>>

SmClose == SmCloseBody(MaxSmCloses)

\* close()'s put(_STOP), suspended on a full input queue, completes
SmClosePutResume ==
    /\ Running
    /\ sm.cl.state = "put"
    /\ Len(sm.handles[sm.cl.cur].rx) < SmQueueSize
    /\ sm.handles[sm.cl.cur].putter = None
    /\ sm' = CloseStop([sm EXCEPT !.handles[sm.cl.cur].rx = Append(@, STOP)],
                       sm.cl.todo)
    /\ UNCHANGED <<now, SmFrame>>

\* some task of the manager can run at the current time
SmReady ==
    \/ \E i \in 1..Len(sm.handles) :
          \/ ENABLED SmPushResume(i)
          \/ ENABLED SmNextBatchResume(i)
          \/ ENABLED SmWorkerRecv(i)
          \/ ENABLED SmWorkerTimeout(i)
          \/ ENABLED SmWorkerPutResume(i)
    \/ ENABLED SmGcWake
    \/ ENABLED SmGcPutResume
    \/ ENABLED SmClosePutResume

\* time passes, up to t, while the loop has nothing to run
SmTickBody(t) ==
    /\ Running
    /\ now < t
    /\ ~SmReady
    /\ now' = now + 1
    /\ UNCHANGED <<sm, SmFrame>>

SmTick == SmTickBody(SmMaxTime)

SmNext ==
    \/ \E sid \in Sessions : SmPush(sid)
    \/ \E sid \in Sessions : SmNextBatch(sid)
    \/ \E i \in 1..MaxHandles : SmPushResume(i)
    \/ \E i \in 1..MaxHandles : SmNextBatchResume(i)
    \/ \E i \in 1..MaxHandles : SmWorkerRecv(i)
    \/ \E i \in 1..MaxHandles : SmWorkerTimeout(i)
    \/ \E i \in 1..MaxHandles : SmWorkerPutResume(i)
    \/ SmStart
    \/ SmGcWake
    \/ SmGcPutResume
    \/ SmClose
    \/ SmClosePutResume
    \/ SmTick

SmSpec == SmInit /\ [][SmNext]_vars

\* the manager with the short delay, under bounds of its own, for what is
\* said of its map and of close()
MapInit == SmInit /\ delay = SmDelay

MapNext ==
    \/ \E sid \in Sessions : SmPushBody(sid, MaxMapPush, MaxMapHandles)
    \/ \E sid \in Sessions : SmNextBatchBody(sid, MaxMapCalls, MaxMapHandles)
    \/ \E i \in 1..MaxMapHandles : SmPushResume(i)
    \/ \E i \in 1..MaxMapHandles : SmNextBatchResume(i)
    \/ \E i \in 1..MaxMapHandles : SmWorkerRecv(i)
    \/ \E i \in 1..MaxMapHandles : SmWorkerTimeout(i)
    \/ \E i \in 1..MaxMapHandles : SmWorkerPutResume(i)
    \/ SmStart
    \/ SmGcWake
    \/ SmGcPutResume
    \/ SmCloseBody(MaxMapCloses)
    \/ SmClosePutResume
    \/ SmTickBody(MapMaxTime)

MapSpec == MapInit /\ [][MapNext]_vars

\* ---------------------------------------------------------------------------
\* A TrailingDebouncer and a CoalescingActorStrategy side by side: same delay
\* and max_wait, every push made on both at the same instant, and one
\* consumer on each that calls next_batch at the same instants
\* ---------------------------------------------------------------------------

\* CoalescingActorStrategy.__init__ and the task _ensure_task makes; getter:
\* the consumer is suspended in _tx.get(); got: the batches next_batch returned
PairInit ==
    /\ kind = "trailing"
    /\ delay = Delay
    /\ max_wait \in {None, MinWait, MaxWait}
    /\ ad = Unused
    /\ db = Unused
    /\ sm = Unused
    /\ pair = [used |-> TRUE,
               h |-> [rx |-> <<>>, tx |-> <<>>, task |-> "get", buf |-> <<>>,
                      deadline |-> None, max_deadline |-> None],
               getter |-> FALSE,
               got |-> <<>>]
    /\ fl = Unused
    /\ ctor = Unused
    /\ dec = Unused
    /\ lp = Unused
    /\ Fresh

\* what the actor's steps leave alone
PairFrame == <<kind, delay, max_wait, exceptPair, now, trailingVars, actorVars, pc, obsVars>>

\* the actor's task or its suspended consumer can run at the current time
PairReady ==
    \/ pair.h.task = "get" /\ pair.h.rx # <<>>
    \/ /\ pair.h.task = "get"
       /\ pair.h.deadline # None
       /\ now >= EffectiveDeadline(pair.h.deadline, pair.h.max_deadline)
    \/ pair.h.task \in {"put", "put_stop"} /\ Len(pair.h.tx) < MaxOutputQueue
    \/ pair.getter /\ pair.h.tx # <<>>

\* the loop has run everything that was due
Settled == ~Ready /\ ~PairReady

\* push(message) on both strategies; the actor's is _rx.put_nowait(message)
PairPush ==
    /\ pair.used
    /\ Settled
    /\ Len(pair.h.rx) < MaxInputQueue
    /\ TrPushBody
    /\ pair' = [pair EXCEPT !.h.rx = Append(@, npush + 1)]
    /\ UNCHANGED <<kind, delay, max_wait, exceptPair>>

\* next_batch() on both strategies; the actor's is await _tx.get()
PairNextBatchCall ==
    /\ pair.used
    /\ Settled
    /\ ~pair.getter
    /\ Len(pair.got) = Len(got)
    /\ TrNextBatchCallBody("c1")
    /\ pair' = IF pair.h.tx # <<>>
               THEN [pair EXCEPT !.h.tx = Tail(@), !.got = Append(@, Head(pair.h.tx))]
               ELSE [pair EXCEPT !.getter = TRUE]
    /\ UNCHANGED <<kind, delay, max_wait, exceptPair>>

\* the actor's next_batch, suspended on the empty output queue, returns
PairNextBatchResume ==
    /\ pair.used
    /\ pair.getter
    /\ pair.h.tx # <<>>
    /\ pair' = [pair EXCEPT !.getter = FALSE, !.h.tx = Tail(@),
                            !.got = Append(@, Head(pair.h.tx))]
    /\ UNCHANGED PairFrame

\* the actor's debounce_actor task
PairWorkerRecv ==
    /\ pair.used
    /\ pair.h.task = "get"
    /\ pair.h.rx # <<>>
    /\ pair' = [pair EXCEPT !.h = HandleRecv(@, MaxOutputQueue)]
    /\ UNCHANGED PairFrame

PairWorkerTimeout ==
    /\ pair.used
    /\ pair.h.task = "get"
    /\ pair.h.deadline # None
    /\ now >= EffectiveDeadline(pair.h.deadline, pair.h.max_deadline)
    /\ pair.h.buf # <<>>
    /\ pair' = [pair EXCEPT !.h = HandleEmit(@, FALSE, MaxOutputQueue)]
    /\ UNCHANGED PairFrame

PairWorkerPutResume ==
    /\ pair.used
    /\ pair.h.task = "put"
    /\ Len(pair.h.tx) < MaxOutputQueue
    /\ pair' = [pair EXCEPT !.h = HandleEmit(@, FALSE, MaxOutputQueue)]
    /\ UNCHANGED PairFrame

\* time passes while neither loop has anything to run
PairTick ==
    /\ pair.used
    /\ now < MaxTime
    /\ Settled
    /\ now' = now + 1
    /\ UNCHANGED <<cfgVars, trailingVars, actorVars, pc, obsVars>>

PairNext ==
    \/ PairPush
    \/ PairNextBatchCall
    \/ PairNextBatchResume
    \/ PairWorkerRecv
    \/ PairWorkerTimeout
    \/ PairWorkerPutResume
    \/ TrTimerFire
    \/ TrMaxWaitFire
    \/ TrNextBatchResume("c1")
    \/ PairTick

PairSpec == PairInit /\ [][PairNext]_vars

\* ---------------------------------------------------------------------------
\* A TrailingDebouncer whose flush() is called more than once
\* ---------------------------------------------------------------------------

\* at: the number of events pushed when flush() was last called; again: the
\* flush() calls made with no push since the flush() call before
FlushInit ==
    /\ kind = "trailing"
    /\ delay = Delay
    /\ max_wait \in {None, MinWait, MaxWait}
    /\ ad = Unused
    /\ db = Unused
    /\ sm = Unused
    /\ pair = Unused
    /\ fl = [used |-> TRUE, at |-> None, again |-> 0]
    /\ ctor = Unused
    /\ dec = Unused
    /\ lp = Unused
    /\ Fresh

\* flush()
FlFlush ==
    /\ fl.used
    /\ TrFlushBody(MaxReflush)
    /\ fl' = [fl EXCEPT !.at = npush,
                        !.again = IF fl.at = npush THEN @ + 1 ELSE @]
    /\ UNCHANGED <<kind, delay, max_wait, exceptFl>>

FlushNext ==
    \/ TrPush
    \/ TrTimerFire
    \/ TrMaxWaitFire
    \/ FlFlush
    \/ TrShutdown
    \/ TrNextBatchCall("c1")
    \/ TrNextBatchResume("c1")
    \/ Tick

FlushSpec == FlushInit /\ [][FlushNext]_vars

\* ---------------------------------------------------------------------------
\* Construction: BaseStrategy.__init__, which the three strategies call first,
\* and DebounceConfig.__post_init__
\* ---------------------------------------------------------------------------
Classes == {"TrailingDebouncer", "CoalescingActorStrategy", "AdaptiveDebouncer",
            "DebounceConfig"}

\* the delays, and the max_wait values (None, or a number), given
CtorDelays == (0 - 1)..MaxCtorValue
CtorMaxWaits == {None, 0 - 2} \cup 0..MaxCtorValue

\* BaseStrategy.__init__: delay <= 0 or max_wait <= 0 raises ValueError
BaseStrategyInit(d, mw) ==
    IF d <= 0 THEN "ValueError"
    ELSE IF mw # None /\ mw <= 0 THEN "ValueError"
    ELSE "constructed"

\* DebounceConfig.__post_init__: delay <= 0, max_wait <= 0 or max_wait < delay
\* raises ValueError
ConfigPostInit(d, mw) ==
    IF d <= 0 THEN "ValueError"
    ELSE IF mw # None /\ mw <= 0 THEN "ValueError"
    ELSE IF mw # None /\ mw < d THEN "ValueError"
    ELSE "constructed"

CtorInit ==
    /\ kind = "trailing"
    /\ delay = Delay
    /\ max_wait = None
    /\ ad = Unused
    /\ db = Unused
    /\ sm = Unused
    /\ pair = Unused
    /\ fl = Unused
    /\ ctor = [used |-> TRUE, class |-> "none", delay |-> 0, max_wait |-> None,
               result |-> "none"]
    /\ dec = Unused
    /\ lp = Unused
    /\ Fresh

\* class(delay=d, max_wait=mw)
Construct(class, d, mw) ==
    /\ ctor.used
    /\ ctor' = [ctor EXCEPT
                  !.class = class, !.delay = d, !.max_wait = mw,
                  !.result = IF class = "DebounceConfig"
                             THEN ConfigPostInit(d, mw)
                             ELSE BaseStrategyInit(d, mw)]
    /\ UNCHANGED <<kind, delay, max_wait, exceptCtor, now, trailingVars,
                   actorVars, pc, obsVars>>

CtorNext ==
    \E class \in Classes, d \in CtorDelays, mw \in CtorMaxWaits :
        Construct(class, d, mw)

CtorSpec == CtorInit /\ [][CtorNext]_vars

\* ---------------------------------------------------------------------------
\* @debounce (decorator.py): a function wrapped around one Debouncer, whose
\* strategy is the TrailingDebouncer above; each caller of the wrapper is a
\* task of its own
\* ---------------------------------------------------------------------------

\* debounce() with a valid configuration, decorator(fn): Debouncer(config)
DecInit ==
    /\ kind = "trailing"
    /\ delay = Delay
    /\ max_wait \in {None, MaxWait}
    /\ ad = Unused
    /\ db = Unused
    /\ sm = Unused
    /\ pair = Unused
    /\ fl = Unused
    /\ ctor = Unused
    /\ dec = [used |-> TRUE, pushed |-> "none", invoked |-> <<>>]
    /\ lp = Unused
    /\ Fresh

\* a caller is between line 98 and line 99, where nothing suspends it: no
\* other task runs until it has called next_batch
MidCall == dec.pushed # "none"

\* wrapper, line 98: await debouncer.push(message)
WrapperPush(c) ==
    /\ dec.used
    /\ ~MidCall
    /\ pc[c] = "idle"
    /\ NextBatchCalls < MaxCalls
    /\ TrPushBody
    /\ dec' = [dec EXCEPT !.pushed = c]
    /\ UNCHANGED <<kind, delay, max_wait, exceptDec>>

\* wrapper, lines 99-100: await debouncer.next_batch(); with the event set it
\* returns at once and fn(batch) is invoked, else the caller is suspended
WrapperNextBatch(c) ==
    /\ dec.used
    /\ dec.pushed = c
    /\ TrNextBatchCallBody(c)
    /\ dec' = [dec EXCEPT !.pushed = "none",
                          !.invoked = IF flush_event THEN Append(@, last_batch)
                                      ELSE @]
    /\ UNCHANGED <<kind, delay, max_wait, exceptDec>>

\* wrapper, lines 99-100: next_batch returns to a released caller, and
\* fn(batch) is invoked
WrapperResume(c) ==
    /\ dec.used
    /\ ~MidCall
    /\ TrNextBatchResumeBody(c)
    /\ dec' = [dec EXCEPT !.invoked = Append(@, last_batch)]
    /\ UNCHANGED <<kind, delay, max_wait, exceptDec>>

\* the timers and the clock, which run only where the loop has control
DecTimerFire == ~MidCall /\ TrTimerFire
DecMaxWaitFire == ~MidCall /\ TrMaxWaitFire
DecTick == ~MidCall /\ Tick

DecNext ==
    \/ \E c \in Consumers : WrapperPush(c)
    \/ \E c \in Consumers : WrapperNextBatch(c)
    \/ \E c \in Consumers : WrapperResume(c)
    \/ DecTimerFire
    \/ DecMaxWaitFire
    \/ DecTick

DecSpec == DecInit /\ [][DecNext]_vars

\* ---------------------------------------------------------------------------
\* The TimerHandle objects of a TrailingDebouncer in the event loop: each
\* loop.call_later makes one, with an identity; it stays scheduled until it is
\* run or cancelled. th and mh: the objects _timer_handle and _max_wait_handle
\* refer to (0: None, or an object no longer scheduled)
\* ---------------------------------------------------------------------------
LoopInit ==
    /\ kind = "trailing"
    /\ delay = Delay
    /\ max_wait \in {None, MinWait, MaxWait}
    /\ ad = Unused
    /\ db = Unused
    /\ sm = Unused
    /\ pair = Unused
    /\ fl = Unused
    /\ ctor = Unused
    /\ dec = Unused
    /\ lp = [used |-> TRUE, timers |-> {}, th |-> 0, mh |-> 0, nid |-> 0]
    /\ Fresh

LoopFrame == <<kind, delay, max_wait, exceptLp>>

CancelTimer_Noop(timers, id) == timers

\* TimerHandle.cancel(): the object is no longer scheduled
CancelTimer(timers, id) == {t \in timers : t.id # id}

\* loop.call_later(after, self._do_flush): a new object, scheduled
CallLater(l, what, after) ==
    [l EXCEPT !.timers = @ \cup {[id |-> l.nid + 1, what |-> what,
                                  when |-> now + after]},
              !.nid = @ + 1]

\* push, lines 60-61: on an empty buffer with max_wait set, _max_wait_handle
\* is assigned a new timer
LoopArmMaxWait(l) ==
    IF buffer = <<>> /\ max_wait # None
    THEN [CallLater(l, "cap", max_wait) EXCEPT !.mh = l.nid + 1]
    ELSE l

\* push, lines 65-68: _timer_handle, if not None, is cancelled; then it is
\* assigned a new timer
LoopArmTimer(l) ==
    LET c == [l EXCEPT !.timers = CancelTimer(@, l.th)]
    IN [CallLater(c, "quiet", delay) EXCEPT !.th = c.nid + 1]

\* _do_flush, lines 92-98, on a non-empty buffer: both handles, if not None,
\* are cancelled and set to None
LoopCancelBoth(l) ==
    [l EXCEPT !.timers = CancelTimer(CancelTimer(@, l.th), l.mh),
              !.th = 0, !.mh = 0]

LoopPush ==
    /\ lp.used
    /\ TrPushBody
    /\ lp' = LoopArmTimer(LoopArmMaxWait(lp))
    /\ UNCHANGED LoopFrame

\* the loop runs a scheduled callback that is due: _do_flush
LoopFire(t) ==
    /\ lp.used
    /\ t \in lp.timers
    /\ now >= t.when
    /\ kind = "trailing"
    /\ UNCHANGED <<actorVars, stalled, solo, held>>
    /\ IF buffer = <<>>
       THEN /\ lp' = [lp EXCEPT !.timers = @ \ {t}]
            /\ timer_handle' = IF t.id = lp.th THEN Spent ELSE timer_handle
            /\ max_wait_handle' = IF t.id = lp.mh THEN Spent ELSE max_wait_handle
            /\ UNCHANGED <<buffer, last_batch, flush_event, pc, flushLog, ptime>>
       ELSE /\ lp' = LoopCancelBoth([lp EXCEPT !.timers = @ \ {t}])
            /\ do_flush(IF t.what = "cap" THEN "cap" ELSE TimerCause)
    /\ UNCHANGED <<LoopFrame, now, closed, npush, last_push, got, flush_result, calls>>

\* flush(): _do_flush if the buffer is not empty
LoopFlush ==
    /\ lp.used
    /\ TrFlushBody(MaxFlushCalls)
    /\ lp' = IF buffer = <<>> THEN lp ELSE LoopCancelBoth(lp)
    /\ UNCHANGED LoopFrame

\* shutdown(): flush(), then the event is set
LoopShutdown ==
    /\ lp.used
    /\ TrShutdownBody
    /\ lp' = IF buffer = <<>> THEN lp ELSE LoopCancelBoth(lp)
    /\ UNCHANGED LoopFrame

\* time passes while no scheduled callback is due and no task is ready
LoopTick ==
    /\ lp.used
    /\ \A t \in lp.timers : now < t.when
    /\ Tick

LoopNext ==
    \/ LoopPush
    \/ \E t \in lp.timers : LoopFire(t)
    \/ LoopFlush
    \/ LoopShutdown
    \/ \E c \in Consumers : TrNextBatchCall(c)
    \/ \E c \in Consumers : TrNextBatchResume(c)
    \/ LoopTick

LoopSpec == LoopInit /\ [][LoopNext]_vars

\* ---------------------------------------------------------------------------
\* Properties
\* ---------------------------------------------------------------------------
Range(q) == {q[i] : i \in 1..Len(q)}

RECURSIVE Concat(_)
Concat(q) == IF q = <<>> THEN <<>> ELSE Head(q).batch \o Concat(Tail(q))

\* the causes of the flushes that took event e
FlushedBy(e) == {f.cause : f \in {g \in Range(flushLog) : e \in Range(g.batch)}}

NoExplicitCalls == calls.flush = 0 /\ calls.shutdown = 0

\* the flushed batches, in flush order, are the events 1, 2, ... that are no
\* longer pending: each flushed event is in one batch, in arrival order
FlushedInOrder ==
    Concat(flushLog) = [i \in 1..(npush - Len(ptime)) |-> i]

\* a push made less than delay after the previous push finds that push's
\* event not yet flushed by the quiet deadline
PushJoinsBurst ==
    (/\ npush' = npush + 1
     /\ last_push # None
     /\ now - last_push < delay
     /\ ~stalled)
    => "quiet" \notin FlushedBy(npush)

\* with pushes and timers only, a batch is never flushed while a released
\* caller has yet to pick up the one before it
FlushReachesWaiter ==
    (flushLog' # flushLog /\ NoExplicitCalls')
    => \A c \in Consumers : pc[c] # "woken"

\* C1: for the trailing and the actor strategy, pushes that follow each other
\* by less than delay are never split by the quiet deadline: all of them are
\* flushed in one batch, in arrival order, and that batch reaches the caller
\* awaiting next_batch (the actor: while its output channel has never been
\* full, as it is with a consumer awaiting).
C1_BurstInOneBatch ==
    /\ []FlushedInOrder
    /\ [][PushJoinsBurst]_vars
    /\ [][FlushReachesWaiter]_vars

\* a caller has received a batch of two events pushed at different times that
\* the quiet deadline flushed
C1_Witness ==
    /\ kind = "actor"
    /\ \E f \in Range(flushLog) :
          /\ f.cause = "quiet"
          /\ Len(f.batch) >= 2
          /\ f.span > 0
          /\ f.batch \in Range(got)

\* C2: a push made at least delay after the previous push, with nothing
\* pending, has its event returned alone by the next next_batch call to
\* return, provided no other push is made before that.
C2_SingletonBatch ==
    [][\A c \in Consumers :
         (solo > 0 /\ Len(got') = Len(got) + 1) => got'[Len(got')] = <<solo>>]_vars

\* a second push, made alone after the first batch was consumed, has been
\* delivered as a singleton batch
C2_Witness ==
    /\ kind = "trailing"
    /\ got = << <<1>>, <<2>> >>
    /\ solo = 0 - 2
    /\ NoExplicitCalls

\* the time every pending (pushed, not yet flushed) event has waited is at
\* most max_wait
PendingWithinMaxWait ==
    \A i \in 1..Len(ptime) : now - ptime[i] <= max_wait

\* C3: on a TrailingDebouncer with max_wait set, no event stays in the buffer
\* longer than max_wait after its push, whatever the pushes that follow it.
C3_TrailingMaxWait ==
    (kind = "trailing" /\ max_wait # None) => PendingWithinMaxWait

\* the max-wait timer flushed three events pushed at intervals below delay
C3_Witness ==
    /\ kind = "trailing"
    /\ max_wait = MaxWait
    /\ \E f \in Range(flushLog) : f.cause = "cap" /\ Len(f.batch) >= 3 /\ f.span > 1

FlushIndex(b) ==
    IF \E i \in 1..Len(flushLog) : flushLog[i].batch = b
    THEN CHOOSE i \in 1..Len(flushLog) : flushLog[i].batch = b
    ELSE 0

\* C5: on a TrailingDebouncer, next_batch calls return the flushed batches in
\* flush order and skip none: when a batch has been returned, every batch
\* flushed before it has been returned too.
C5_FifoNoSkip ==
    (kind = "trailing" /\ NoExplicitCalls) =>
        /\ \A j \in 1..Len(flushLog) : \A i \in 1..(j - 1) :
              flushLog[j].batch \in Range(got) => flushLog[i].batch \in Range(got)
        /\ \A j \in 1..Len(got) : \A i \in 1..(j - 1) :
              FlushIndex(got[i]) <= FlushIndex(got[j])

\* C6: on a TrailingDebouncer, no two next_batch calls return the same
\* flushed batch.
C6_NoBatchTwice ==
    kind = "trailing" =>
        \A i, j \in 1..Len(got) : (i # j /\ got[i] # <<>>) => got[i] # got[j]

\* this step is a flush() call made on an empty buffer
FlushCallOnEmpty ==
    /\ calls'.flush = calls.flush + 1
    /\ IF kind = "trailing" THEN buffer = <<>> ELSE actor_buffer = <<>>

C8_TrailingShutdownReleases ==
    []<>(kind = "trailing" => held = {})

\* shutdown() on an empty, never flushed strategy has made both callers
\* suspended in next_batch ready to return
C8_Witness ==
    /\ kind = "trailing"
    /\ calls.shutdown = 1
    /\ npush = 0
    /\ held = Consumers
    /\ \A c \in Consumers : pc[c] = "woken"

\* C9: on a CoalescingActorStrategy, every caller that is suspended in
\* next_batch when shutdown() is called eventually returns from it: again and
\* again no such caller (held) is left suspended.
C9_ActorShutdownReleases ==
    []<>(kind = "actor" => held = {})

\* C10: shutdown() is idempotent: called twice, it leaves the strategy in the
\* state one call leaves it in.
C10_ShutdownIdempotent ==
    /\ kind = "trailing" => shutdown(shutdown(TrState)) = shutdown(TrState)
    /\ kind = "actor" => shutdown_rx(shutdown_rx(rx)) = shutdown_rx(rx)

\* this step is a shutdown() call that releases a caller waiting in next_batch
ShutdownReleasesWaiter ==
    /\ calls'.shutdown = calls.shutdown + 1
    /\ \E c \in Consumers : pc[c] = "waiting" /\ pc'[c] = "woken"

\* C11: on a TrailingDebouncer, the batch handed to the next_batch callers that
\* shutdown() releases (_last_batch, which they return when they run) is
\* exactly the events buffered at the call, in arrival order: the empty batch
\* when nothing was buffered, also after earlier batches were flushed and
\* consumed.
C11_ShutdownBatchIsBuffer ==
    [][(kind = "trailing" /\ ShutdownReleasesWaiter) => last_batch' = buffer]_vars

\* every pushed event is, once and in arrival order, in an emitted batch, in
\* the worker's buffer or on the input channel; the emitted batches are,
\* in emission order, those the callers took and those on the output channel
PipelineInOrder ==
    /\ Concat(flushLog) \o actor_buffer \o rx = [i \in 1..npush |-> i]
    /\ [i \in 1..Len(flushLog) |-> flushLog[i].batch] = got \o tx

\* while the worker is suspended on the emit it reads no input: the input
\* channel only grows and the buffer stays
SuspendedReadsNothing ==
    task = "put" =>
        /\ Len(rx') >= Len(rx)
        /\ SubSeq(rx', 1, Len(rx)) = rx
        /\ actor_buffer' = actor_buffer \/ task' = "get"

\* when the worker decides to emit at its deadline, no event pushed before
\* this instant is left on the input channel: the events pushed during a
\* stall are all in the batch that follows the stalled one
EmitLeavesNoneBehind ==
    (task = "get" /\ (task' = "put" \/ flushLog' # flushLog))
    => \A i \in (Len(actor_buffer) + 1)..Len(ptime) : ptime[i] = now

AdPushStep == ad.used /\ npush' = npush + 1

\* the delay within [min_delay, max_delay]
DelayInRange == ad.min_delay <= delay /\ delay <= ad.max_delay

\* C16: the very first push on an AdaptiveDebouncer leaves effective_delay as
\* configured and only records the time of the event (and pushes the event to
\* the inner strategy).
C16_FirstPushKeepsDelay ==
    [][(AdPushStep /\ npush = 0) =>
          /\ delay' = delay
          /\ ad' = [ad EXCEPT !.last_time = now]
          /\ buffer' = <<1>>]_vars

\* a first push, made some time after construction, has left the delay and
\* the moving average as they were and recorded its time
C16_Witness ==
    /\ ad.used
    /\ npush = 1
    /\ ad.last_time > 0
    /\ ad.ema = 0
    /\ delay = AdDelayHigh * AdScale

C18_FastPushDecreases ==
    [][(/\ AdPushStep
        /\ HasLastTime
        /\ now - ad.last_time = FastInterval * AdScale
        /\ delay > ad.min_delay)
       => delay' < delay]_vars

\* C19: after the first push, a push that follows the previous one by more
\* than the current delay never lowers effective_delay.
C19_SlowPushNeverLowers ==
    [][(AdPushStep /\ HasLastTime /\ now - ad.last_time > delay)
       => delay' >= delay]_vars

\* C20: once the Debouncer is closed, no push and no next_batch call reaches
\* the strategy (buffer, timers, closed flag and event count stay as they are,
\* no caller is suspended or handed a batch by a new call), a call that raises
\* changes nothing of the strategy, and no close() calls shutdown() again.
C20_ClosedFacadeRejects ==
    [][(db.used /\ db.closed) =>
          /\ buffer' = buffer
          /\ timer_handle' = timer_handle
          /\ max_wait_handle' = max_wait_handle
          /\ closed' = closed
          /\ npush' = npush
          /\ \A c \in Consumers : pc[c] = "idle" => pc'[c] = "idle"
          /\ got' # got => \E c \in Consumers : pc[c] = "woken"
          /\ calls'.shutdown = calls.shutdown
          /\ db'.raised # db.raised => UNCHANGED <<trailingVars, pc, obsVars>>]_vars

\* a Debouncer that took a push and was closed; then a push and a next_batch
\* call raised and close() was called a second time
C20_Witness ==
    /\ db.used
    /\ db.closed
    /\ npush = 1
    /\ db.raised = {"push", "next_batch"}
    /\ db.closes = 2
    /\ calls.shutdown = 1

\* the session on whose full input queue the holder of the lock is suspended
LockHeldFor ==
    IF sm.lock = "gc" THEN sm.handles[sm.gc.cur].sid
    ELSE IF sm.lock = "close" THEN sm.handles[sm.cl.cur].sid
    ELSE "none"

\* C12 (the part on blocking): no push and no next_batch call on one session
\* is ever blocked on account of another session, whose input queue its own
\* pushes have filled.
C12_NoCallBlockedByOtherSession ==
    sm.used =>
        ~(/\ sm.blocked.op \in {"push", "next_batch"}
          /\ LockHeldFor \in Sessions \ {sm.blocked.sid})

\* the events handed to the next_batch callers of a session
DeliveredTo(sid) ==
    UNION {Range(sm.delivered[sid][k]) : k \in 1..Len(sm.delivered[sid])}

\* C13 (the part on the content of a reaped session): the events a session
\* held unflushed when the reaper removed it can still be obtained under its
\* session id: they have been handed to a next_batch caller of that id, or a
\* caller of that id is still waiting on the removed handle.
C13_ReapedContentObtainable ==
    sm.used =>
        \A i \in 1..Len(sm.handles) :
            (sm.handles[i].reaped /\ ~sm.handles[i].getter)
                => sm.handles[i].atreap \subseteq DeliveredTo(sm.handles[i].sid)

\* C14: with the same pushes and the same next_batch calls, the batches the
\* TrailingDebouncer has handed to its consumer and those the actor strategy
\* has handed to its consumer are the same, one by one.
C14_SameBatchesDelivered ==
    pair.used =>
        \A i \in 1..Min(Len(got), Len(pair.got)) : got[i] = pair.got[i]

\* this step is a flush() call made on a non-empty buffer
FlushCallOnBuffer ==
    /\ calls'.flush = calls.flush + 1
    /\ buffer # <<>>

\* every pushed event is either buffered or in exactly one flushed batch, and
\* the flushed batches followed by the buffer are the events in arrival order
EachEventFlushedOnce ==
    Concat(flushLog) \o buffer = [i \in 1..npush |-> i]

\* C26: flush() on a TrailingDebouncer with a non-empty buffer returns the
\* buffered events in arrival order and leaves the buffer empty with both
\* timers cancelled; no event is ever in two flushed batches.
C26_FlushReturnsBuffer ==
    /\ [](fl.used => EachEventFlushedOnce)
    /\ [][(fl.used /\ FlushCallOnBuffer) =>
             /\ flush_result' = buffer
             /\ buffer' = <<>>
             /\ timer_handle' = None
             /\ max_wait_handle' = None]_vars

\* flush() returned two buffered events while both timers were armed, and a
\* later event was flushed after it
C26_Witness ==
    /\ fl.used
    /\ max_wait # None
    /\ Len(flushLog) = 2
    /\ flushLog[1].cause = "flush"
    /\ flushLog[1].batch = <<1, 2>>
    /\ flushLog[2].batch = <<3>>

AcFlushCall == kind = "actor" /\ calls'.flush = calls.flush + 1

\* C27 as claimed: flush() on a CoalescingActorStrategy returns the batch the
\* worker put on the output channel last and changes nothing.
C27_FlushReturnsEmitted ==
    [][AcFlushCall =>
          /\ flush_result' = (IF flushLog = <<>> THEN <<>>
                              ELSE flushLog[Len(flushLog)].batch)
          /\ UNCHANGED <<actorVars, pc, now>>]_vars

\* C27, amended: flush() on a CoalescingActorStrategy returns the batch that
\* next_batch returned last (the empty batch when none has returned yet) and
\* changes nothing: worker, buffer, deadlines, both channels and the suspended
\* callers are as before.
C27_FlushReturnsDelivered ==
    [][AcFlushCall =>
          /\ flush_result' = (IF got = <<>> THEN <<>> ELSE got[Len(got)])
          /\ UNCHANGED <<actorVars, pc, now>>]_vars

\* flush() has returned the one batch a next_batch call took, and the worker
\* has emitted a second batch, which is still on the output channel
C27_Witness ==
    /\ kind = "actor"
    /\ calls.flush = 1
    /\ got = << <<1>> >>
    /\ flush_result = <<1>>
    /\ tx = << <<2>> >>

\* C28: on a TrailingDebouncer that has been shut down, neither the quiet
\* timer nor the max-wait timer is armed, whatever is called afterwards.
C28_NoTimerAfterShutdown ==
    (kind = "trailing" /\ closed) => (timer_handle < 0 /\ max_wait_handle < 0)

\* C21: a call of the delay setter with a value <= 0, or above max_wait when
\* max_wait is set, raises and leaves delay as it was; with any other value it
\* returns and delay is that value. So delay is always positive and, when
\* max_wait is set, at most max_wait.
C21_DelaySetterValidates ==
    /\ [](db.used => (delay > 0 /\ (max_wait = None \/ delay <= max_wait)))
    /\ [][(db.used /\ db'.set # db.set) =>
             IF db'.set.value <= 0
                \/ (max_wait # None /\ db'.set.value > max_wait)
             THEN ~db'.set.ok /\ delay' = delay /\ "delay" \in db'.raised
             ELSE db'.set.ok /\ delay' = db'.set.value]_vars

\* with max_wait set, the setter stored max_wait itself, a push armed the
\* quiet timer with it, and a later call with a larger value raised
C21_Witness ==
    /\ db.used
    /\ max_wait = MaxWait
    /\ delay = MaxWait
    /\ timer_handle = last_push + MaxWait
    /\ db.set = [value |-> MaxWait + 1, ok |-> FALSE]

\* C22: construction with delay <= 0, max_wait <= 0 or max_wait < delay
\* fails, so whatever has been constructed has a positive delay and max_wait
\* absent or at least delay.
C22_ConstructedIsValid ==
    (ctor.used /\ ctor.result = "constructed") =>
        /\ ctor.delay > 0
        /\ ctor.max_wait = None \/ ctor.max_wait >= ctor.delay

\* a step in which close() is called and gets past the lock
CloseCall == sm.used /\ sm'.ncloses = sm.ncloses + 1

\* a step in which a close() call returns: at once, or resumed from a put
CloseReturn ==
    /\ sm.used
    /\ CloseCall \/ sm.cl.state = "put"
    /\ sm'.cl.state = "none"
    /\ sm'.blocked.op = "none"

\* the stop signal has been put on the handle's input queue: it is there, or
\* the worker has taken it (nothing else ends a worker)
StopSent(h) ==
    \/ \E k \in 1..Len(h.rx) : h.rx[k] = STOP
    \/ h.task \in {"done", "put_stop"}

NoSession(s) == \A sid \in Sessions : s.map[sid] = 0

\* C23: SessionManager.close() cancels the reaper; when it returns, the stop
\* signal has been sent to every session that was in the map, the map is
\* empty and no reaper is left; called with an empty map and no reaper (as a
\* close() that returned leaves them, and as before start()), it returns at
\* once and changes nothing.
C23_CloseStopsAndClears ==
    [][/\ CloseCall => sm'.gc.state = "none"
       /\ CloseReturn =>
            /\ NoSession(sm')
            /\ sm'.gc.state = "none"
            /\ sm'.lock = "free"
            /\ \A i \in 1..Len(sm.handles) :
                  sm.map[sm.handles[i].sid] = i => StopSent(sm'.handles[i])
       /\ (CloseCall /\ NoSession(sm) /\ sm.gc.state = "none") =>
            sm' = [sm EXCEPT !.ncloses = @ + 1]]_vars

\* close() has returned twice, and a session it found in the map was stopped
C23_Witness ==
    /\ sm.used
    /\ sm.ncloses >= 2
    /\ sm.cl.state = "none"
    /\ sm.blocked.op = "none"
    /\ NoSession(sm)
    /\ \E i \in 1..Len(sm.handles) :
          ~sm.handles[i].reaped /\ StopSent(sm.handles[i])

\* a step in which push or next_batch is called for sid and gets past the lock
SessionCall(sid) ==
    /\ \/ SmPushBody(sid, MaxMapPush, MaxMapHandles)
       \/ SmNextBatchBody(sid, MaxMapCalls, MaxMapHandles)
    /\ sm'.blocked.op = "none"

\* active_sessions: len(self._sessions)
active_sessions(s) == Cardinality({sid \in Sessions : s.map[sid] # 0})

\* the worker of handle i has not ended
LiveWorker(s, i) == s.handles[i].task # "done"

\* the handle sid is mapped to is one made for sid and not one the reaper took
MapOk(s) ==
    \A sid \in Sessions :
        s.map[sid] # 0 =>
            /\ s.map[sid] \in 1..Len(s.handles)
            /\ s.handles[s.map[sid]].sid = sid
            /\ ~s.handles[s.map[sid]].reaped
            /\ s.lock = "free" => LiveWorker(s, s.map[sid])

\* C24 as stated, its last part: in every state there is at most one live
\* worker per session id.
C24_OneLiveWorkerPerId ==
    sm.used =>
        \A i, j \in 1..Len(sm.handles) :
            (i # j /\ sm.handles[i].sid = sm.handles[j].sid) =>
                ~(LiveWorker(sm, i) /\ LiveWorker(sm, j))

\* C24: a push or next_batch for an id not in the map creates exactly one
\* session (empty channels, a worker waiting for input) and maps the id to
\* it; for an id in the map it creates none; nothing else creates a session
\* or maps an id, and an id leaves the map only when the reaper takes its
\* session or close() returns: active_sessions counts the ids used since
\* then, each mapped to one session with one worker.
C24_LazyCreation ==
    [][sm.used =>
        /\ \A sid \in Sessions :
              SessionCall(sid) =>
                IF sm.map[sid] = 0
                THEN LET k == Len(sm.handles) + 1 IN
                     /\ Len(sm'.handles) = k
                     /\ sm'.map = [sm.map EXCEPT ![sid] = k]
                     /\ sm'.handles[k].sid = sid
                     /\ sm'.handles[k].task = "get"
                     /\ sm'.handles[k].tx = <<>>
                     /\ sm'.handles[k].buf = <<>>
                     /\ active_sessions(sm') = active_sessions(sm) + 1
                ELSE /\ Len(sm'.handles) = Len(sm.handles)
                     /\ sm'.map = sm.map
        /\ (\A sid \in Sessions : ~SessionCall(sid)) =>
              /\ Len(sm'.handles) = Len(sm.handles)
              /\ \A sid \in Sessions :
                    sm'.map[sid] # sm.map[sid] =>
                        /\ sm'.map[sid] = 0
                        /\ CloseReturn \/ sm'.handles[sm.map[sid]].reaped
        /\ MapOk(sm')]_vars

\* a session made for an id whose earlier session was reaped or closed, after
\* a call for an id that was in the map, the earlier worker still alive
C24_Witness ==
    /\ sm.used
    /\ sm.blocked.op = "none"
    /\ Len(sm.handles) = 2
    /\ sm.handles[1].sid = sm.handles[2].sid
    /\ sm.map[sm.handles[2].sid] = 2
    /\ sm.n + sm.ncalls >= 3
    /\ LiveWorker(sm, 1)
    /\ LiveWorker(sm, 2)

\* C25: callers of the decorated function whose messages are coalesced into
\* one batch cause one invocation of the original function with that batch:
\* no batch of two or more messages is passed to the function twice.
C25_OneInvocationPerBatch ==
    dec.used =>
        \A i, j \in 1..Len(dec.invoked) :
            (i < j /\ Len(dec.invoked[i]) >= 2) => dec.invoked[i] # dec.invoked[j]

\* the events of a sequence of batches, in the order yielded
RECURSIVE Flatten(_)
Flatten(bs) == IF bs = <<>> THEN <<>> ELSE Head(bs) \o Flatten(Tail(bs))

\* C29: a consumer iterating batches() is yielded every event pushed before
\* close() in exactly one batch, in arrival order: what has been yielded is
\* always the first events pushed, each once and in order, and all of them
\* once the iterator has ended.
C29_EachEventYieldedOnce ==
    db.used =>
        LET ys == Flatten(db.yielded) IN
        /\ Len(ys) <= npush
        /\ \A k \in 1..Len(ys) : ys[k] = k
        /\ db.it = "done" => Len(ys) = npush

\* the scheduled callbacks of one kind
Pending(what) == {t \in lp.timers : t.what = what}

\* C31: on a TrailingDebouncer, in every state exactly one quiet-period timer
\* is scheduled if the buffer is non-empty and none if it is empty; a max-wait
\* timer is scheduled iff the buffer is non-empty and max_wait is set; never
\* more than one of either kind; the scheduled timers are the ones the two
\* handle fields refer to, so a replaced or flushed timer never runs.
C31_OneTimerPerBuffer ==
    lp.used =>
        /\ Cardinality(Pending("quiet")) = IF buffer # <<>> THEN 1 ELSE 0
        /\ Cardinality(Pending("cap")) =
              IF buffer # <<>> /\ max_wait # None THEN 1 ELSE 0
        /\ \A t \in Pending("quiet") : t.id = lp.th /\ t.when = timer_handle
        /\ \A t \in Pending("cap") : t.id = lp.mh /\ t.when = max_wait_handle

\* a second buffering cycle, with max_wait set, in which the quiet timer has
\* been replaced by a later push
C31_Witness ==
    /\ lp.used
    /\ max_wait # None
    /\ flushLog # <<>>
    /\ Len(buffer) >= 2
    /\ last_push > ptime[1]
    /\ Cardinality(lp.timers) = 2

\* the cap deadline and the buffer of the strategy: the max-wait timer's time
\* and _buffer, or the worker's max_deadline and buffer
CapDeadline == IF kind = "trailing" THEN max_wait_handle ELSE max_deadline
Buffered == IF kind = "trailing" THEN buffer ELSE actor_buffer

\* C32: the cap deadline is set only when the buffer goes from empty to
\* non-empty, and then to now + max_wait; an event added to a non-empty buffer
\* leaves it unchanged; it is cleared only by a flush. For the trailing
\* strategy's max-wait timer and for the actor worker's max_deadline.
C32_CapArmedOncePerCycle ==
    [][/\ (CapDeadline' # CapDeadline /\ CapDeadline' >= 0) =>
            /\ Buffered = <<>>
            /\ Buffered' # <<>>
            /\ max_wait # None
            /\ CapDeadline' = now + max_wait
       /\ (Buffered = <<>> /\ Buffered' # <<>> /\ max_wait # None) =>
            CapDeadline' = now + max_wait
       /\ (Buffered # <<>> /\ Len(Buffered') > Len(Buffered)) =>
            CapDeadline' = CapDeadline
       /\ (CapDeadline >= 0 /\ CapDeadline' < 0) =>
            /\ Len(flushLog') = Len(flushLog) + 1
            /\ flushLog'[Len(flushLog')].batch = Buffered
            /\ Buffered' = <<>>]_vars

\* in a second buffering cycle a later event has joined the buffer and the
\* cap deadline is still the first event's arrival + max_wait
C32_Witness ==
    /\ max_wait # None
    /\ flushLog # <<>>
    /\ Len(Buffered) >= 2
    /\ last_push > ptime[1]
    /\ CapDeadline = ptime[1] + max_wait

\* the instant at which the timers of the trailing strategy flush the buffer
FlushDue ==
    IF max_wait # None
    THEN Min(last_push + delay, ptime[1] + max_wait)
    ELSE last_push + delay

\* the step is a flush of the buffer by one of the two timers
TimerFlushStep ==
    /\ Len(flushLog') = Len(flushLog) + 1
    /\ flushLog'[Len(flushLog')].cause \in {"quiet", "cap"}

\* C33: every push of a TrailingDebouncer moves the quiet deadline to the
\* time of that push plus delay; a flush by a timer happens exactly at
\* min(last push + delay, cap deadline), so never earlier than delay after
\* the most recent push unless the cap deadline has elapsed.
C33_FlushAtQuietOrCap ==
    [][kind = "trailing" =>
         /\ npush' = npush + 1 => timer_handle' = now + delay
         /\ TimerFlushStep =>
               /\ flushLog'[Len(flushLog')].batch = buffer
               /\ now = FlushDue
               /\ now < last_push + delay =>
                     (max_wait # None /\ now >= ptime[1] + max_wait)]_vars

\* two pushes at different times went out as one batch when the quiet
\* deadline of the second one was reached
C33_Witness ==
    /\ kind = "trailing"
    /\ flushLog # <<>>
    /\ flushLog[Len(flushLog)].cause = "quiet"
    /\ Len(flushLog[Len(flushLog)].batch) >= 2
    /\ flushLog[Len(flushLog)].span > 0
    /\ buffer = <<>>
    /\ now = last_push + delay

\* the worker is at the top of its loop, about to wait for a message
AtLoopStart == kind = "actor" /\ task = "get"

\* the deadlines of the worker as they are at the top of its loop
DeadlinesOk ==
    AtLoopStart =>
        /\ (deadline # None) <=> (actor_buffer # <<>>)
        /\ (deadline # None /\ max_deadline # None) =>
               /\ deadline <= max_deadline
               /\ EffectiveDeadline(deadline, max_deadline) <= max_deadline

\* the step is the worker emitting its buffer because a deadline was reached
DeadlineFlushStep ==
    /\ kind = "actor"
    /\ Len(flushLog') = Len(flushLog) + 1
    /\ flushLog'[Len(flushLog')].cause \in {"quiet", "cap"}

\* C34: at the start of every iteration of the actor worker the quiet
\* deadline is set iff the buffer is non-empty; when both deadlines are set
\* the quiet deadline does not exceed the cap deadline, so neither does the
\* effective deadline; a deadline-driven flush emits the buffer and clears
\* the buffer and both deadlines together.
C34_WorkerDeadlines ==
    /\ DeadlinesOk
    /\ [][/\ DeadlinesOk'
          /\ DeadlineFlushStep =>
                /\ flushLog'[Len(flushLog')].batch = actor_buffer
                /\ actor_buffer # <<>>
                /\ actor_buffer' = <<>>
                /\ deadline' = None
                /\ max_deadline' = None]_vars

\* after a deadline-driven flush the worker buffers two events again, the
\* quiet deadline of the second one clipped to the cap deadline
C34_Witness ==
    /\ AtLoopStart
    /\ flushLog # <<>>
    /\ flushLog[Len(flushLog)].cause \in {"quiet", "cap"}
    /\ Len(actor_buffer) >= 2
    /\ max_deadline # None
    /\ deadline = max_deadline
    /\ delay < max_wait

\* C35: once the worker of a CoalescingActorStrategy has ended on the stop
\* signal, no worker runs for that strategy again and no batch is emitted
\* afterwards, whatever push, next_batch and shutdown calls follow.
C35_WorkerEndsForGood ==
    [][(kind = "actor" /\ task = "done") =>
          (task' = "done" /\ flushLog' = flushLog)]_vars

\* the events 1, 2, ... accepted by push so far, in arrival order
Accepted == [i \in 1..npush |-> i]

\* the events on the input channel, without the stop signal
Queued == SelectSeq(rx, LAMBDA m : m # STOP)

\* the batches emitted to the output channel, in the order of emission
Emitted == [i \in 1..Len(flushLog) |-> flushLog[i].batch]

\* C36: the actor strategy never silently drops an event. The events
\* accepted by push are, in arrival order and each once, those of the emitted
\* batches, then those in the worker's buffer, then those on the input
\* channel; the emitted batches are non-empty and are the batches taken by
\* next_batch followed by those on the output channel; once the worker has
\* ended on the stop signal with no event left behind it, the emitted batches
\* are all the accepted events.
C36_NoEventDropped ==
    kind = "actor" =>
        /\ Concat(flushLog) \o actor_buffer \o Queued = Accepted
        /\ Emitted = got \o tx
        /\ \A i \in 1..Len(flushLog) : flushLog[i].batch # <<>>
        /\ (task = "done" /\ Queued = <<>>) => Concat(flushLog) = Accepted

\* after a shutdown the worker has ended, having been held up by a full
\* output channel, and every accepted event is in one of several batches
C36_Witness ==
    /\ kind = "actor"
    /\ calls.shutdown = 1
    /\ task = "done"
    /\ rx = <<>>
    /\ stalled
    /\ npush = MaxPush
    /\ Len(flushLog) >= 2
    /\ flushLog[Len(flushLog)].cause = "stop"
    /\ Concat(flushLog) = Accepted

\* C37: for an AdaptiveDebouncer with max_wait set, the delay the controller
\* has computed on a push (the delay of the controller and of its inner
\* strategy, which push sets to the same value) is positive and at most
\* max_wait.
C37_AdaptedDelayWithinMaxWait ==
    (ad.used /\ max_wait # None /\ npush >= 2) =>
        (delay > 0 /\ delay <= max_wait)

\* the step removes handle i from the map as the reaper does
ReapStep(i) ==
    /\ i \in 1..Len(sm.handles)
    /\ ~sm.handles[i].reaped
    /\ sm'.handles[i].reaped

\* the step creates a session
CreateStep == Len(sm'.handles) > Len(sm.handles)

\* C38: the reaper removes a session only if its last_activity is older
\* than session_timeout at the time of the pass, so never one pushed to
\* within the last session_timeout; only the reaper and close() take a
\* session out of the map; and no step both creates and reaps: a session is
\* created with the lock free and reaped by the task that holds it.
C38_ReapsOnlyIdle ==
    [][sm.used =>
        /\ \A i \in 1..MaxHandles :
              ReapStep(i) =>
                /\ now - sm.handles[i].last_activity > session_timeout
                /\ sm.map[sm.handles[i].sid] = i
                /\ sm'.map[sm.handles[i].sid] = 0
                /\ sm.gc.state \in {"sleep", "put"}
                /\ ~CreateStep
        /\ \A sid \in Sessions :
              (sm.map[sid] # 0 /\ sm'.map[sid] # sm.map[sid]) =>
                /\ sm'.map[sid] = 0
                /\ \/ ReapStep(sm.map[sid])
                   \/ sm'.ncloses > sm.ncloses
                   \/ sm.cl.state = "put"
        /\ CreateStep =>
              /\ sm.lock = "free"
              /\ \A i \in 1..Len(sm.handles) :
                    sm'.handles[i].reaped = sm.handles[i].reaped]_vars

\* a reaper pass has just ended: it removed one session, and left in the map
\* another one, pushed to before the pass and within session_timeout
C38_Witness ==
    /\ sm.used
    /\ sm.gc.state = "sleep"
    /\ sm.gc.wake = now + GcPeriod
    /\ \E i, j \in 1..Len(sm.handles) :
          /\ sm.handles[i].reaped
          /\ sm.map[sm.handles[i].sid] = 0
          /\ sm.handles[i].sid # sm.handles[j].sid
          /\ sm.map[sm.handles[j].sid] = j
          /\ ~sm.handles[j].reaped
          /\ sm.handles[j].rx \o sm.handles[j].buf \o sm.handles[j].tx # <<>>
          /\ sm.handles[j].last_activity < now
          /\ now - sm.handles[j].last_activity <= session_timeout
          /\ now - sm.handles[i].last_activity > session_timeout

\* C39: the session-map lock is never held by a suspended coroutine: in no
\* state between two steps of the loop is the lock held (close() and the
\* reaper have left their critical section), and no push, next_batch, close
\* or reaper pass waits for it forever.
C39_LockNeverHeldSuspended ==
    sm.used => (sm.lock = "free" /\ sm.blocked.op = "none")

\* a next_batch caller is suspended on the output channel of handle i, whose
\* worker has ended and left nothing on it: no batch will ever release it
LeftBehind(i) ==
    /\ sm.handles[i].getter
    /\ sm.handles[i].task = "done"
    /\ sm.handles[i].tx = <<>>
    /\ sm.map[sm.handles[i].sid] # i

\* C40: no consumer suspended in next_batch(sid) is left waiting for good on
\* the output channel of a session that the reaper or close() has removed.
C40_NoConsumerLeftBehind ==
    sm.used => \A i \in 1..Len(sm.handles) : ~LeftBehind(i)

====
